---- MODULE Spec2Model ----
(***************************************************************************)
(* Transaction router of the query router (mongos): the per-session state  *)
(* machine of src/mongo/s/transaction_router.cpp.  One session, checked    *)
(* out to one operation at a time; every public operation of               *)
(* TransactionRouter::Router is one action.                                *)
(***************************************************************************)
EXTENDS Integers, Sequences, FiniteSets, TLC

(* ---------------------------------------------------------------------- *)
(* Bounds of the model                                                    *)
(* ---------------------------------------------------------------------- *)
NumShards == 2
MaxTxnNumber == 1
MaxStmtId == 1
MaxClusterTime == 2
MaxTicks == 2
MaxPartialEntries == 3
MaxOpsPerEntry == 2
MaxAccountingTicks == 5
TicksPerMicrosecond == 2

Shards == 1..NumShards
TxnNumbers == 0..MaxTxnNumber
ClusterTimes == 1..MaxClusterTime

(* ---------------------------------------------------------------------- *)
(* Program constants                                                      *)
(* ---------------------------------------------------------------------- *)
kUninitializedTxnNumber == -1
kUninitializedStmtId == -1
kDefaultFirstStmtId == 0
\* LogicalTime::kUninitialized, and an absent boost::optional<LogicalTime>
kUninitializedTime == 0
\* an absent boost::optional<ShardId>
NoShard == 0
\* an absent boost::optional<StmtId>
NoStmtId == -1

\* TransactionRouter::CommitType
CommitTypes ==
    {"notInitiated", "noShards", "singleShard", "singleWriteShard", "readOnly",
     "twoPhaseCommit", "recoverWithToken"}

\* TransactionRouter::TransactionActions
TransactionActions == {"start", "continue", "commit"}

\* Read-concern levels a client statement may carry; "" is "no level".
ReadConcernLevels == {"", "snapshot", "majority", "local", "linearizable"}

EmptyReadConcern == [level |-> "", afterClusterTime |-> kUninitializedTime]

\* repl::ReadConcernArgs as far as the router looks at it: the level and the
\* optional afterClusterTime (kUninitializedTime = absent).  The read concerns
\* client statements carry: none, each level, and snapshot with an
\* afterClusterTime.
ReadConcernArgsSet ==
    [level : ReadConcernLevels, afterClusterTime : {kUninitializedTime}]
        \cup {[level |-> "snapshot", afterClusterTime |-> MaxClusterTime]}

\* repl::ReadConcernArgs::isEmpty
isEmpty(rc) == rc.level = "" /\ rc.afterClusterTime = kUninitializedTime

\* repl::ReadConcernArgs::hasLevel
hasLevel(rc) == rc.level # ""

isReadConcernLevelAllowedInTransaction(level) ==
    level = "snapshot" \/ level = "majority" \/ level = "local"

VARIABLES
    txnNumber,            \* o().txnNumber
    readConcernArgs,      \* o().readConcernArgs
    atClusterTime,        \* o().atClusterTime: [present, time, stmtIdSelectedAt]
    participants,         \* o().participants: shard id -> Participant
    coordinatorId,        \* o().coordinatorId
    recoveryShardId,      \* p().recoveryShardId
    commitType,           \* o().commitType
    isRecoveringCommit,   \* p().isRecoveringCommit
    terminationInitiated, \* p().terminationInitiated
    firstStmtId,          \* p().firstStmtId
    latestStmtId,         \* p().latestStmtId
    abortCause,           \* o().abortCause
    timingStats,          \* o().timingStats
    opAfterClusterTime,   \* ReadConcernArgs::get(opCtx).getArgsAfterClusterTime() of the
                          \* operation that last entered the transaction
    clusterTime,          \* the cluster time the logical clock last returned
    ticks,                \* TickSource::getTicks()
    invariantFailed,      \* "none", or the invariant() that terminated the process
    writeOrder,           \* shards in the order their first write response was processed
    recoveryAtStmtStart,  \* recoveryShardId when latestStmtId last advanced
    pc,                   \* where the thread that runs the router's operations is
                          \* between two critical sections under the client lock
    oplog,                \* the oplog entries of the transaction that are written,
                          \* by op time
    cachedOps,            \* the entries of the batch being applied, oldest first
    lastEntryInTxn,       \* the commit or prepare entry being applied
    ops,                  \* the operations readTransactionOperationsFromOplogChain
                          \* returned
    applierPc             \* "idle", "read" before the chain is read, "done" after

vars ==
    <<txnNumber, readConcernArgs, atClusterTime, participants, coordinatorId,
      recoveryShardId, commitType, isRecoveringCommit, terminationInitiated,
      firstStmtId, latestStmtId, abortCause, timingStats, opAfterClusterTime,
      clusterTime, ticks, invariantFailed, writeOrder,
      recoveryAtStmtStart, pc, oplog, cachedOps, lastEntryInTxn, ops, applierPc>>

\* the router's own fields
routerVars ==
    <<txnNumber, readConcernArgs, atClusterTime, participants, coordinatorId,
      recoveryShardId, commitType, isRecoveringCommit, terminationInitiated,
      firstStmtId, latestStmtId, abortCause, timingStats>>

envVars == <<clusterTime, ticks>>

\* the state of the oplog application of a transaction
applierVars == <<oplog, cachedOps, lastEntryInTxn, ops, applierPc>>

(* ---------------------------------------------------------------------- *)
(* AtClusterTime                                                          *)
(* ---------------------------------------------------------------------- *)
\* an unset boost::optional<AtClusterTime>
AbsentAtClusterTime ==
    [present |-> FALSE, time |-> kUninitializedTime, stmtIdSelectedAt |-> NoStmtId]

\* a default-constructed AtClusterTime (atClusterTime.emplace())
EmptyAtClusterTime ==
    [present |-> TRUE, time |-> kUninitializedTime, stmtIdSelectedAt |-> NoStmtId]

timeHasBeenSet(act) == act.time # kUninitializedTime

setTime(act, time, currentStmtId) ==
    [act EXCEPT !.time = time, !.stmtIdSelectedAt = currentStmtId]

\* a fault: the time may be chosen again at any statement
canChangeAtAnyStatement(act, currentStmtId) == TRUE

canChange(act, currentStmtId) ==
    act.stmtIdSelectedAt = NoStmtId \/ act.stmtIdSelectedAt = currentStmtId

\* Observer::_atClusterTimeHasBeenSet
atClusterTimeHasBeenSet == atClusterTime.present /\ timeHasBeenSet(atClusterTime)

(* ---------------------------------------------------------------------- *)
(* TimingStats                                                            *)
(* ---------------------------------------------------------------------- *)
InitTimingStats ==
    [startTime |-> 0, endTime |-> 0, commitStartTime |-> 0,
     timeActiveMicros |-> 0, lastTimeActiveStart |-> 0]

\* TickSource::ticksTo<Microseconds>: whole microseconds in a number of ticks
ticksTo(numTicks) ==
    IF numTicks >= 0 THEN numTicks \div TicksPerMicrosecond
    ELSE -((-numTicks) \div TicksPerMicrosecond)

trySetActive(ts, curTicks) ==
    IF ts.endTime # 0 \/ ts.lastTimeActiveStart # 0
    THEN ts
    ELSE [ts EXCEPT !.startTime = IF ts.startTime = 0 THEN curTicks ELSE @,
                    !.lastTimeActiveStart = curTicks]

trySetInactiveStaysActive(ts, curTicks) ==
    IF ts.endTime # 0 \/ ts.lastTimeActiveStart = 0
    THEN ts
    ELSE [ts EXCEPT !.timeActiveMicros = @ + ticksTo(curTicks - ts.lastTimeActiveStart)]

trySetInactive(ts, curTicks) ==
    IF ts.endTime # 0 \/ ts.lastTimeActiveStart = 0
    THEN ts
    ELSE [ts EXCEPT !.timeActiveMicros = @ + ticksTo(curTicks - ts.lastTimeActiveStart),
                    !.lastTimeActiveStart = 0]

\* the getters are called once the transaction has started: each begins with
\* invariant(startTime > 0)
getDuration(ts, curTicks) ==
    IF ts.endTime = 0 THEN ticksTo(curTicks - ts.startTime)
    ELSE ticksTo(ts.endTime - ts.startTime)

getTimeActiveMicros(ts, curTicks) ==
    IF ts.lastTimeActiveStart # 0
    THEN ts.timeActiveMicros + ticksTo(curTicks - ts.lastTimeActiveStart)
    ELSE ts.timeActiveMicros

getTimeInactiveMicros(ts, curTicks) ==
    getDuration(ts, curTicks) - getTimeActiveMicros(ts, curTicks)

(* ---------------------------------------------------------------------- *)
(* Construction and process termination                                   *)
(* ---------------------------------------------------------------------- *)
\* the process is alive
Running == invariantFailed = "none"

\* no operation of the router is in progress
Idle == [at |-> "idle", shards |-> {}, rc |-> EmptyReadConcern]

\* The operations of a router run one at a time, on the thread that has
\* checked the session out: an operation starts when no other is in progress
\* and, seen by that thread, runs to its end in one step.
AtomicOperation == pc = Idle /\ pc' = Idle /\ UNCHANGED applierVars

InitRouter ==
    /\ txnNumber = kUninitializedTxnNumber
    /\ readConcernArgs = EmptyReadConcern
    /\ atClusterTime = AbsentAtClusterTime
    /\ participants = <<>>
    /\ coordinatorId = NoShard
    /\ recoveryShardId = NoShard
    /\ commitType = "notInitiated"
    /\ isRecoveringCommit = FALSE
    /\ terminationInitiated = FALSE
    /\ firstStmtId = kUninitializedStmtId
    /\ latestStmtId = kUninitializedStmtId
    /\ abortCause = ""
    /\ timingStats = InitTimingStats
    /\ opAfterClusterTime = kUninitializedTime
    /\ clusterTime = 1
    /\ ticks = 1
    /\ invariantFailed = "none"
    /\ writeOrder = <<>>
    /\ recoveryAtStmtStart = NoShard
    /\ pc = Idle

\* no commit or prepare entry is being applied
NoEntry == [opTime |-> 0, prevOpTime |-> 0, kind |-> "none", ops |-> <<>>]

InitApplier ==
    /\ oplog = <<>>
    /\ cachedOps = <<>>
    /\ lastEntryInTxn = NoEntry
    /\ ops = <<>>
    /\ applierPc = "idle"

Init == InitRouter /\ InitApplier

\* A failed invariant() terminates the process: the router's state is gone and
\* no operation runs any more.
InvariantFailure(name) ==
    /\ invariantFailed' = name
    /\ txnNumber' = kUninitializedTxnNumber
    /\ readConcernArgs' = EmptyReadConcern
    /\ atClusterTime' = AbsentAtClusterTime
    /\ participants' = <<>>
    /\ coordinatorId' = NoShard
    /\ recoveryShardId' = NoShard
    /\ commitType' = "notInitiated"
    /\ isRecoveringCommit' = FALSE
    /\ terminationInitiated' = FALSE
    /\ firstStmtId' = kUninitializedStmtId
    /\ latestStmtId' = kUninitializedStmtId
    /\ abortCause' = ""
    /\ timingStats' = InitTimingStats
    /\ opAfterClusterTime' = kUninitializedTime
    /\ writeOrder' = <<>>
    /\ recoveryAtStmtStart' = NoShard
    /\ UNCHANGED envVars

(* ---------------------------------------------------------------------- *)
(* beginOrContinueTxn                                                     *)
(* ---------------------------------------------------------------------- *)
\* a fault: a lower txnNumber is taken for a new transaction
beginOrContinueErrorNoTooOld(txnNum, action, rc) ==
    IF txnNum = txnNumber THEN
        CASE action = "start" -> "ConflictingOperationInProgress"
          [] action = "continue" -> IF isEmpty(rc) THEN "OK" ELSE "InvalidOptions"
          [] action = "commit" -> "OK"
    ELSE
        CASE action = "start" ->
                IF ~hasLevel(rc) \/ isReadConcernLevelAllowedInTransaction(rc.level)
                THEN "OK" ELSE "InvalidOptions"
          [] action = "continue" -> "NoSuchTransaction"
          [] action = "commit" -> "OK"

\* a fault: a continue at a greater txnNumber starts the transaction
beginOrContinueErrorContinueStarts(txnNum, action, rc) ==
    IF txnNum < txnNumber THEN "TransactionTooOld"
    ELSE IF txnNum = txnNumber THEN
        CASE action = "start" -> "ConflictingOperationInProgress"
          [] action = "continue" -> IF isEmpty(rc) THEN "OK" ELSE "InvalidOptions"
          [] action = "commit" -> "OK"
    ELSE
        CASE action = "start" ->
                IF ~hasLevel(rc) \/ isReadConcernLevelAllowedInTransaction(rc.level)
                THEN "OK" ELSE "InvalidOptions"
          [] action = "continue" -> "OK"
          [] action = "commit" -> "OK"

\* The error beginOrContinueTxn(txnNum, action) throws for an operation whose
\* read concern is rc, "OK" if it throws none.
beginOrContinueError(txnNum, action, rc) ==
    IF txnNum < txnNumber THEN "TransactionTooOld"
    ELSE IF txnNum = txnNumber THEN
        CASE action = "start" -> "ConflictingOperationInProgress"
          [] action = "continue" -> IF isEmpty(rc) THEN "OK" ELSE "InvalidOptions"
          [] action = "commit" -> "OK"
    ELSE
        CASE action = "start" ->
                IF ~hasLevel(rc) \/ isReadConcernLevelAllowedInTransaction(rc.level)
                THEN "OK" ELSE "InvalidOptions"
          [] action = "continue" -> "NoSuchTransaction"
          [] action = "commit" -> "OK"

\* a fault: the recovery shard and the abort cause of the previous
\* transaction are kept
ResetRouterStateKeepingRecoveryShard(txnNum, action, rc) ==
    /\ txnNumber' = txnNum
    /\ commitType' = "notInitiated"
    /\ isRecoveringCommit' = (action = "commit")
    /\ participants' = <<>>
    /\ coordinatorId' = NoShard
    /\ recoveryShardId' = recoveryShardId
    /\ readConcernArgs' = IF action = "start" THEN rc ELSE EmptyReadConcern
    /\ atClusterTime' = IF action = "start" /\ rc.level = "snapshot"
                        THEN EmptyAtClusterTime ELSE AbsentAtClusterTime
    /\ abortCause' = abortCause
    /\ timingStats' = trySetActive(InitTimingStats, ticks)
    /\ terminationInitiated' = FALSE
    /\ latestStmtId' = kDefaultFirstStmtId
    /\ firstStmtId' = kDefaultFirstStmtId

\* a fault: every started transaction gets an atClusterTime holder
ResetRouterStateAlwaysWithHolder(txnNum, action, rc) ==
    /\ txnNumber' = txnNum
    /\ commitType' = "notInitiated"
    /\ isRecoveringCommit' = (action = "commit")
    /\ participants' = <<>>
    /\ coordinatorId' = NoShard
    /\ recoveryShardId' = NoShard
    /\ readConcernArgs' = IF action = "start" THEN rc ELSE EmptyReadConcern
    /\ atClusterTime' = IF action = "start"
                        THEN EmptyAtClusterTime ELSE AbsentAtClusterTime
    /\ abortCause' = ""
    /\ timingStats' = trySetActive(InitTimingStats, ticks)
    /\ terminationInitiated' = FALSE
    /\ latestStmtId' = kDefaultFirstStmtId
    /\ firstStmtId' = kDefaultFirstStmtId

\* _resetRouterState followed by what the start / commit branch adds to it
ResetRouterState(txnNum, action, rc) ==
    /\ txnNumber' = txnNum
    /\ commitType' = "notInitiated"
    /\ isRecoveringCommit' = (action = "commit")
    /\ participants' = <<>>
    /\ coordinatorId' = NoShard
    /\ recoveryShardId' = NoShard
    /\ readConcernArgs' = IF action = "start" THEN rc ELSE EmptyReadConcern
    /\ atClusterTime' = IF action = "start" /\ rc.level = "snapshot"
                        THEN EmptyAtClusterTime ELSE AbsentAtClusterTime
    /\ abortCause' = ""
    /\ timingStats' = trySetActive(InitTimingStats, ticks)
    /\ terminationInitiated' = FALSE
    /\ latestStmtId' = kDefaultFirstStmtId
    /\ firstStmtId' = kDefaultFirstStmtId

BeginOrContinueTxn(txnNum, action, rc) ==
    LET err == beginOrContinueError(txnNum, action, rc) IN
    /\ Running
    /\ AtomicOperation
    /\ IF err # "OK" THEN
            \* the operation ends with the error
            UNCHANGED <<routerVars, opAfterClusterTime, writeOrder, recoveryAtStmtStart>>
       ELSE IF txnNum = txnNumber THEN
            \* continue or commit of the transaction in progress
            /\ latestStmtId < MaxStmtId
            /\ opAfterClusterTime' = IF action = "continue"
                                   THEN readConcernArgs.afterClusterTime
                                   ELSE rc.afterClusterTime
            /\ latestStmtId' = latestStmtId + 1
            /\ timingStats' = trySetActive(timingStats, ticks)
            /\ recoveryAtStmtStart' = recoveryShardId
            /\ UNCHANGED <<txnNumber, readConcernArgs, atClusterTime, participants,
                           coordinatorId, recoveryShardId, commitType,
                           isRecoveringCommit, terminationInitiated, firstStmtId,
                           abortCause, writeOrder>>
       ELSE
            /\ opAfterClusterTime' = rc.afterClusterTime
            /\ ResetRouterState(txnNum, action, rc)
            /\ writeOrder' = <<>>
            /\ recoveryAtStmtStart' = NoShard
    /\ UNCHANGED <<envVars, invariantFailed>>

(* ---------------------------------------------------------------------- *)
(* setDefaultAtClusterTime                                                *)
(* ---------------------------------------------------------------------- *)
\* a fault: afterClusterTime is not taken into account
chosenAtClusterTimeIgnoringAfter(afterClusterTime, candidateTime) == candidateTime

\* _setAtClusterTime: the time chosen from the candidate and afterClusterTime
chosenAtClusterTime(afterClusterTime, candidateTime) ==
    IF afterClusterTime # kUninitializedTime /\ afterClusterTime > candidateTime
    THEN afterClusterTime
    ELSE candidateTime

\* now: what LogicalClock::getClusterTime() returns; the clock never goes back
SetDefaultAtClusterTime(now) ==
    /\ Running
    /\ AtomicOperation
    /\ IF ~atClusterTime.present \/ ~canChange(atClusterTime, latestStmtId)
       THEN UNCHANGED <<atClusterTime, clusterTime>>
       ELSE /\ now >= clusterTime
            /\ clusterTime' = now
            /\ atClusterTime' = setTime(atClusterTime,
                                        chosenAtClusterTime(opAfterClusterTime, now),
                                        latestStmtId)
    /\ UNCHANGED <<txnNumber, readConcernArgs, participants, coordinatorId,
                   recoveryShardId, commitType, isRecoveringCommit,
                   terminationInitiated, firstStmtId, latestStmtId, abortCause,
                   timingStats, opAfterClusterTime, ticks, invariantFailed, writeOrder,
                   recoveryAtStmtStart>>

(* ---------------------------------------------------------------------- *)
(* Participants                                                           *)
(* ---------------------------------------------------------------------- *)
ReadOnlyStates == {"unset", "readOnly", "notReadOnly"}

\* TransactionRouter::Participant::Participant
Participant(inIsCoordinator, inStmtIdCreatedAt, inReadOnly, inSharedOptions) ==
    [isCoordinator |-> inIsCoordinator,
     readOnly |-> inReadOnly,
     sharedOptions |-> inSharedOptions,
     stmtIdCreatedAt |-> inStmtIdCreatedAt]

\* the map without the given keys (participants.erase)
Erase(map, keys) == [s \in (DOMAIN map) \ keys |-> map[s]]

\* the map with one entry added or replaced (erase + try_emplace)
Emplace(map, key, value) ==
    [s \in (DOMAIN map) \cup {key} |-> IF s = key THEN value ELSE map[s]]

\* AtClusterTime::getTime: its invariants hold
getTimeOk(act) == act.time # kUninitializedTime /\ act.stmtIdSelectedAt # NoStmtId

\* _verifyParticipantAtClusterTime: both of its invariants hold
verifyParticipantAtClusterTimeOk(participant) ==
    /\ participant.sharedOptions.atClusterTime # kUninitializedTime
    /\ getTimeOk(atClusterTime)
    /\ participant.sharedOptions.atClusterTime = atClusterTime.time

\* getParticipant: the lookup of an existing participant passes its check
getParticipantOk(shard) ==
    atClusterTime.present => verifyParticipantAtClusterTimeOk(participants[shard])

\* _createParticipant: the participant it adds for the shard
createdParticipant(shard) ==
    Participant(participants = <<>>,
                latestStmtId,
                "unset",
                [txnNumber |-> txnNumber,
                 readConcernArgs |-> readConcernArgs,
                 atClusterTime |-> IF atClusterTime.present
                                   THEN atClusterTime.time
                                   ELSE kUninitializedTime])

\* the commands isTransactionCommand recognises, and two ordinary ones
CmdNames ==
    {"find", "insert", "abortTransaction", "commitTransaction", "prepareTransaction",
     "coordinateCommitTransaction"}

isTransactionCommand(cmdName) ==
    \/ cmdName = "abortTransaction"
    \/ cmdName = "commitTransaction"
    \/ cmdName = "prepareTransaction"
    \/ cmdName = "coordinateCommitTransaction"

\* Participant::attachTxnFieldsIfNeeded: the transaction fields of the
\* decorated command
decorated(participant, cmdName, isFirstStatementInThisParticipant) ==
    LET mustStartTransaction ==
            isFirstStatementInThisParticipant /\ ~isTransactionCommand(cmdName)
        so == participant.sharedOptions
    IN [startTransaction |-> mustStartTransaction,
        readConcernLevel |-> IF mustStartTransaction /\ ~isEmpty(so.readConcernArgs)
                             THEN so.readConcernArgs.level ELSE "",
        atClusterTime |-> IF mustStartTransaction /\ ~isEmpty(so.readConcernArgs)
                          THEN so.atClusterTime ELSE kUninitializedTime,
        coordinator |-> participant.isCoordinator,
        autocommit |-> FALSE,
        txnNumber |-> so.txnNumber]

\* a fault: every command is decorated as the participant's first one
attachedFieldsAlwaysFirst(shard, cmdName) ==
    decorated(IF shard \in DOMAIN participants
              THEN participants[shard] ELSE createdParticipant(shard),
              cmdName, TRUE)

\* Router::attachTxnFieldsIfNeeded: the decoration of a command for the shard
attachedFields(shard, cmdName) ==
    IF shard \in DOMAIN participants
    THEN decorated(participants[shard], cmdName, FALSE)
    ELSE decorated(createdParticipant(shard), cmdName, TRUE)

\* a fault: every new participant becomes the coordinator
AttachFieldsLastIsCoordinator(shard) ==
    IF shard \in DOMAIN participants THEN
        UNCHANGED <<participants, coordinatorId>>
    ELSE
        /\ participants' = Emplace(participants, shard, createdParticipant(shard))
        /\ coordinatorId' = shard

\* Router::attachTxnFieldsIfNeeded with _createParticipant: the participants
\* and the coordinator after decorating a command for the shard
AttachFields(shard) ==
    IF shard \in DOMAIN participants THEN
        UNCHANGED <<participants, coordinatorId>>
    ELSE
        /\ participants' = Emplace(participants, shard, createdParticipant(shard))
        /\ coordinatorId' = IF participants = <<>> THEN shard ELSE coordinatorId

\* the invariant() that fails when a command for the shard is decorated,
\* "none" if all hold
attachInvariantFailure(shard) ==
    IF shard \in DOMAIN participants /\ ~getParticipantOk(shard)
    THEN "_verifyParticipantAtClusterTime"
    ELSE IF shard \notin DOMAIN participants /\ participants = <<>>
            /\ coordinatorId # NoShard
    THEN "_createParticipant"
    ELSE IF shard \notin DOMAIN participants /\ atClusterTime.present
            /\ ~getTimeOk(atClusterTime)
    THEN "AtClusterTime::getTime"
    ELSE "none"

AttachTxnFieldsIfNeeded(shard) ==
    /\ Running
    /\ AtomicOperation
    /\ IF attachInvariantFailure(shard) # "none" THEN
            InvariantFailure(attachInvariantFailure(shard))
       ELSE
            /\ AttachFields(shard)
            /\ UNCHANGED <<txnNumber, readConcernArgs, atClusterTime, recoveryShardId,
                           commitType, isRecoveringCommit, terminationInitiated,
                           firstStmtId, latestStmtId, abortCause, timingStats,
                           opAfterClusterTime, envVars, invariantFailed, writeOrder,
                           recoveryAtStmtStart>>

\* a fault: the reported state is not stored
setReadOnlyForParticipantKeeps(shard, readOnly) == participants

\* a fault: the participant stored again is never the coordinator
setReadOnlyForParticipantDropsCoordinator(shard, readOnly) ==
    Emplace(Erase(participants, {shard}), shard,
            Participant(FALSE,
                        participants[shard].stmtIdCreatedAt,
                        readOnly,
                        participants[shard].sharedOptions))

\* _setReadOnlyForParticipant
setReadOnlyForParticipant(shard, readOnly) ==
    Emplace(Erase(participants, {shard}), shard,
            Participant(participants[shard].isCoordinator,
                        participants[shard].stmtIdCreatedAt,
                        readOnly,
                        participants[shard].sharedOptions))

\* a fault: a shard that wrote may later claim to be read-only
processParticipantResponseErrorNo51113(shard, readOnly) ==
    IF participants[shard].stmtIdCreatedAt # latestStmtId
          /\ participants[shard].readOnly = "unset"
    THEN "51112"
    ELSE "OK"

\* a fault: 51112 is decided by the response's readOnly field instead of the
\* participant's state
processParticipantResponseErrorByMarker(shard, readOnly) ==
    IF participants[shard].stmtIdCreatedAt # latestStmtId /\ ~readOnly
    THEN "51112"
    ELSE IF readOnly /\ participants[shard].readOnly = "notReadOnly"
    THEN "51113"
    ELSE "OK"

\* The error processParticipantResponse throws for an OK response of a
\* participant before termination, "OK" if it throws none.
processParticipantResponseError(shard, readOnly) ==
    IF participants[shard].stmtIdCreatedAt # latestStmtId
          /\ participants[shard].readOnly = "unset"
    THEN "51112"
    ELSE IF readOnly /\ participants[shard].readOnly = "notReadOnly"
    THEN "51113"
    ELSE "OK"

\* a fault: the response is validated even after termination was initiated
processParticipantResponseThrownAfterTermination(shard, response) ==
    IF ~response.ok THEN "OK"
    ELSE processParticipantResponseError(shard, response.readOnly)

\* The error processParticipantResponse throws for the response of a
\* participant, "OK" if it throws none: the response is not looked at once
\* termination is initiated or when its command status is not OK.
processParticipantResponseThrown(shard, response) ==
    IF terminationInitiated \/ ~response.ok THEN "OK"
    ELSE processParticipantResponseError(shard, response.readOnly)

\* response: [ok: the command status is OK, readOnly: the value of the
\* response's readOnly field]
ProcessParticipantResponse(shard, response) ==
    /\ Running
    /\ AtomicOperation
    /\ IF shard \notin DOMAIN participants THEN
            InvariantFailure("processParticipantResponse")
       ELSE IF ~getParticipantOk(shard) THEN
            InvariantFailure("_verifyParticipantAtClusterTime")
       ELSE
            /\ IF terminationInitiated \/ ~response.ok THEN
                    /\ UNCHANGED <<participants, recoveryShardId, writeOrder>>
               ELSE IF processParticipantResponseThrown(shard, response) # "OK" THEN
                    /\ UNCHANGED <<participants, recoveryShardId, writeOrder>>
               ELSE IF response.readOnly THEN
                    /\ participants' = IF participants[shard].readOnly = "unset"
                                       THEN setReadOnlyForParticipant(shard, "readOnly")
                                       ELSE participants
                    /\ UNCHANGED <<recoveryShardId, writeOrder>>
               ELSE IF participants[shard].readOnly # "notReadOnly" THEN
                    /\ participants' = setReadOnlyForParticipant(shard, "notReadOnly")
                    /\ recoveryShardId' = IF recoveryShardId = NoShard
                                          THEN shard ELSE recoveryShardId
                    /\ writeOrder' = Append(writeOrder, shard)
               ELSE
                    /\ UNCHANGED <<participants, recoveryShardId, writeOrder>>
            /\ UNCHANGED <<txnNumber, readConcernArgs, atClusterTime, coordinatorId,
                           commitType, isRecoveringCommit, terminationInitiated,
                           firstStmtId, latestStmtId, abortCause, timingStats,
                           opAfterClusterTime, envVars, invariantFailed,
                           recoveryAtStmtStart>>

(* ---------------------------------------------------------------------- *)
(* Statement-level retries                                                *)
(* ---------------------------------------------------------------------- *)
\* a batch of requests sent together, the command carrying the operation's
\* write concern: the command, the shards it goes to and, for
\* coordinateCommitTransaction, its participant list
Batch(cmd, shards, participantList) ==
    [cmd |-> cmd, shards |-> shards, participants |-> participantList,
     writeConcern |-> TRUE]

\* a batch of requests whose command carries no write concern
BareBatch(cmd, shards) ==
    [cmd |-> cmd, shards |-> shards, participants |-> {}, writeConcern |-> FALSE]

\* a fault: every participant counts as pending
allParticipantsPending == DOMAIN participants

\* a fault: no participant counts as pending
noParticipantPending == {}

_getPendingParticipants ==
    {s \in DOMAIN participants : participants[s].stmtIdCreatedAt = latestStmtId}

\* How the aborts sent to the pending participants end: every response is OK
\* or NoSuchTransaction, some response is another command error, or a request
\* could not be sent.
AbortOutcomes == {"ok", "commandError", "sendFailure"}

\* a fault: every abort response is accepted
abortOutcomeErrorAcceptingAll(outcome) == "OK"

\* the error _assertAbortStatusIsOkOrNoSuchTransaction throws
abortOutcomeError(outcome) ==
    CASE outcome = "ok" -> "OK"
      [] outcome = "commandError" -> "NoSuchTransaction"
      [] outcome = "sendFailure" -> "HostUnreachable"

\* the invariant() that fails at the end of _clearPendingParticipants, "none"
\* if all hold
clearInvariantFailure(remaining) ==
    IF remaining # {} /\ (coordinatorId = NoShard \/ coordinatorId \notin remaining)
    THEN "_clearPendingParticipants" ELSE "none"

\* the abortTransaction requests _clearPendingParticipants sends
clearPendingBatches ==
    IF _getPendingParticipants = {} THEN <<>>
    ELSE <<BareBatch("abortTransaction", _getPendingParticipants)>>

\* a fault: the recovery shard is kept when it is removed
recoveryShardKept(pending) == recoveryShardId

\* _clearPendingParticipants: the recovery shard after the pending
\* participants are removed
recoveryShardAfterClear(pending) ==
    IF recoveryShardId \in pending THEN NoShard ELSE recoveryShardId

\* _clearPendingParticipants; resetAtClusterTime: the caller is onSnapshotError,
\* which then replaces atClusterTime by an empty holder
ClearPendingParticipants(outcome, resetAtClusterTime) ==
    LET pending == _getPendingParticipants
        remaining == (DOMAIN participants) \ pending
    IN
    /\ outcome # "ok" => pending # {}
    /\ IF abortOutcomeError(outcome) # "OK" THEN
            \* the operation throws before it removes a participant
            UNCHANGED vars
       ELSE IF clearInvariantFailure(remaining) # "none" THEN
            InvariantFailure(clearInvariantFailure(remaining))
       ELSE IF resetAtClusterTime /\ remaining # {} THEN
            InvariantFailure("onSnapshotError")
       ELSE
            /\ participants' = Erase(participants, pending)
            /\ recoveryShardId' = recoveryShardAfterClear(pending)
            /\ coordinatorId' = IF remaining = {} THEN NoShard ELSE coordinatorId
            /\ writeOrder' = SelectSeq(writeOrder, LAMBDA s : s \notin pending)
            /\ atClusterTime' = IF resetAtClusterTime
                                THEN EmptyAtClusterTime ELSE atClusterTime
            /\ UNCHANGED <<invariantFailed, txnNumber, readConcernArgs, commitType,
                           isRecoveringCommit, terminationInitiated, firstStmtId,
                           latestStmtId, abortCause, timingStats, opAfterClusterTime,
                           envVars, recoveryAtStmtStart>>

alwaysRetryableCmds == {"aggregate", "distinct", "find", "getMore", "killCursors"}

\* the commands of the statements that run into a stale routing error: an
\* always-retryable one and a write
StatementCmdNames == {"find", "insert"}

\* a fault: no command may be retried after the first statement
canContinueOnStaleShardOrDbErrorFirstStatementOnly(failPointOn, cmdName) ==
    failPointOn /\ latestStmtId = firstStmtId

\* failPointOn: enableStaleVersionAndSnapshotRetriesWithinTransactions is on
canContinueOnStaleShardOrDbError(failPointOn, cmdName) ==
    failPointOn /\ (latestStmtId = firstStmtId \/ cmdName \in alwaysRetryableCmds)

\* a fault: a snapshot error may be retried at any statement
canContinueOnSnapshotErrorAtAnyStatement(failPointOn) ==
    failPointOn /\ atClusterTime.present

\* a fault: the retry gate is not consulted
canContinueOnSnapshotErrorIgnoringGate(failPointOn) ==
    atClusterTime.present /\ canChange(atClusterTime, latestStmtId)

canContinueOnSnapshotError(failPointOn) ==
    failPointOn /\ atClusterTime.present /\ canChange(atClusterTime, latestStmtId)

OnStaleShardOrDbError(failPointOn, cmdName, outcome) ==
    /\ Running
    /\ AtomicOperation
    /\ IF ~canContinueOnStaleShardOrDbError(failPointOn, cmdName)
       THEN InvariantFailure("canContinueOnStaleShardOrDbError")
       ELSE ClearPendingParticipants(outcome, FALSE)

OnViewResolutionError(outcome) ==
    /\ Running
    /\ AtomicOperation
    /\ ClearPendingParticipants(outcome, FALSE)

\* onSnapshotError: after _clearPendingParticipants no participant and no
\* coordinator may be left. The message it writes at log level 3, which reads
\* the time of atClusterTime, is not part of the model: the default log level
\* does not evaluate it.
OnSnapshotError(failPointOn, outcome) ==
    /\ Running
    /\ AtomicOperation
    /\ IF ~canContinueOnSnapshotError(failPointOn)
       THEN InvariantFailure("canContinueOnSnapshotError")
       ELSE ClearPendingParticipants(outcome, TRUE)

(* ---------------------------------------------------------------------- *)
(* Transaction lifecycle tracking                                         *)
(* ---------------------------------------------------------------------- *)
\* a fault: every commit attempt records its own start time
onStartCommitOverwrites(ts) == [ts EXCEPT !.commitStartTime = ticks]

\* _onStartCommit
onStartCommit(ts) ==
    IF ts.commitStartTime # 0 THEN ts ELSE [ts EXCEPT !.commitStartTime = ticks]

endTransactionTrackingRepeated(ts) ==
    [trySetInactive(trySetActive(ts, ticks), ticks) EXCEPT !.endTime = ticks]

\* _endTransactionTrackingIfNecessary
endTransactionTrackingIfNecessary(ts) ==
    IF ts.endTime # 0 THEN ts
    ELSE [trySetInactive(trySetActive(ts, ticks), ticks) EXCEPT !.endTime = ticks]

\* _transactionInfoForLog: its invariants hold when the end of the
\* transaction is logged with the given termination cause
transactionInfoForLogOk(terminationCause, cType, cause, coordinator) ==
    /\ cType = "twoPhaseCommit" => coordinator # NoShard
    /\ IF terminationCause = "committed"
       THEN cType # "notInitiated" /\ cause = ""
       ELSE cause # ""

(* ---------------------------------------------------------------------- *)
(* Responses of shards                                                    *)
(* ---------------------------------------------------------------------- *)
\* Command statuses a shard answers commit and abort with: OK, a retryable
\* write error, an exceeded-time-limit error, TransactionTooOld and an error
\* of none of these kinds.
Statuses ==
    {"OK", "HostUnreachable", "MaxTimeMSExpired", "TransactionTooOld", "NoSuchTransaction"}

\* a response: its command status and whether its write-concern status is OK
Responses == [status : Statuses, wcOK : BOOLEAN]

OkResponse == [status |-> "OK", wcOK |-> TRUE]

\* a request whose response status (swResponse) is not OK
SendFailure == [status |-> "sendFailure", wcOK |-> TRUE]

\* what a fan-out ends with: for a failed request SendFailure; else the first
\* response with a command or write-concern error; else the last response,
\* which is then OK
FanOutOutcomes == Responses \cup {SendFailure}

\* the error uassertStatusOK(response.swResponse) throws
sendFailureError == "HostUnreachable"

isErrorResponse(response) == response.status # "OK" \/ ~response.wcOK

\* RemoteCommandRetryScheduler::kAllRetriableErrors, among Statuses
isRetryableWritesError(code) == code = "HostUnreachable"

\* ErrorCodes::isExceededTimeLimitError, among Statuses
isExceededTimeLimitError(code) == code = "MaxTimeMSExpired"

isCommitResultUnknown(commitStatus, commitWCStatusOK) ==
    IF commitStatus # "OK"
    THEN \/ isRetryableWritesError(commitStatus)
         \/ isExceededTimeLimitError(commitStatus)
         \/ commitStatus = "TransactionTooOld"
    ELSE ~commitWCStatusOK

(* ---------------------------------------------------------------------- *)
(* commitTransaction                                                      *)
(* ---------------------------------------------------------------------- *)
\* an absent boost::optional<TxnRecoveryToken>; NoShard is a token without
\* recoveryShardId
NoToken == -1

RecoveryTokens == {NoToken, NoShard} \cup Shards

readOnlyShards == {s \in DOMAIN participants : participants[s].readOnly = "readOnly"}

writeShards == {s \in DOMAIN participants : participants[s].readOnly = "notReadOnly"}

unsetShards == {s \in DOMAIN participants : participants[s].readOnly = "unset"}

\* a fault: a recovery token without a recovery shard is accepted
commitErrorAcceptsEmptyToken(recoveryToken) ==
    IF isRecoveringCommit THEN
        IF recoveryToken = NoToken THEN "50940" ELSE "OK"
    ELSE IF participants = <<>> THEN
        IF txnNumber = kUninitializedTxnNumber THEN "IllegalOperation" ELSE "OK"
    ELSE IF unsetShards # {} THEN "NoSuchTransaction"
    ELSE "OK"

\* a fault: a participant that never answered is committed like the others
commitErrorIgnoringUnset(recoveryToken) ==
    IF isRecoveringCommit THEN
        IF recoveryToken = NoToken THEN "50940"
        ELSE IF recoveryToken = NoShard THEN "NoSuchTransaction"
        ELSE "OK"
    ELSE IF participants = <<>> THEN
        IF txnNumber = kUninitializedTxnNumber THEN "IllegalOperation" ELSE "OK"
    ELSE "OK"

\* _commitTransaction and _commitWithRecoveryToken: the error thrown before
\* any request is sent, "OK" if none
commitError(recoveryToken) ==
    IF isRecoveringCommit THEN
        IF recoveryToken = NoToken THEN "50940"
        ELSE IF recoveryToken = NoShard THEN "NoSuchTransaction"
        ELSE "OK"
    ELSE IF participants = <<>> THEN
        IF txnNumber = kUninitializedTxnNumber THEN "IllegalOperation" ELSE "OK"
    ELSE IF unsetShards # {} THEN "NoSuchTransaction"
    ELSE "OK"

\* a fault: one write shard among several participants is handed to the
\* coordinator
selectedCommitTypeAlwaysTwoPhase(recoveryToken) ==
    IF isRecoveringCommit THEN
        IF recoveryToken = NoToken THEN commitType ELSE "recoverWithToken"
    ELSE IF participants = <<>> THEN
        IF txnNumber = kUninitializedTxnNumber THEN commitType ELSE "noShards"
    ELSE IF unsetShards # {} THEN commitType
    ELSE IF Cardinality(DOMAIN participants) = 1 THEN "singleShard"
    ELSE IF Cardinality(writeShards) = 0 THEN "readOnly"
    ELSE "twoPhaseCommit"

\* _commitTransaction: the commit type after the call
selectedCommitType(recoveryToken) ==
    IF isRecoveringCommit THEN
        IF recoveryToken = NoToken THEN commitType ELSE "recoverWithToken"
    ELSE IF participants = <<>> THEN
        IF txnNumber = kUninitializedTxnNumber THEN commitType ELSE "noShards"
    ELSE IF unsetShards # {} THEN commitType
    ELSE IF Cardinality(DOMAIN participants) = 1 THEN "singleShard"
    ELSE IF Cardinality(writeShards) = 0 THEN "readOnly"
    ELSE IF Cardinality(writeShards) = 1 THEN "singleWriteShard"
    ELSE "twoPhaseCommit"

\* _commitTransaction: the requests of the commit path, in the order they
\* are sent when no response stops the path
commitBatches(recoveryToken) ==
    IF commitError(recoveryToken) # "OK" THEN <<>>
    ELSE CASE selectedCommitType(recoveryToken) = "recoverWithToken" ->
                <<Batch("coordinateCommitTransaction", {recoveryToken}, {})>>
           [] selectedCommitType(recoveryToken) = "noShards" -> <<>>
           [] selectedCommitType(recoveryToken) = "singleShard" ->
                <<Batch("commitTransaction", DOMAIN participants, {})>>
           [] selectedCommitType(recoveryToken) = "readOnly" ->
                <<Batch("commitTransaction", readOnlyShards, {})>>
           [] selectedCommitType(recoveryToken) = "singleWriteShard" ->
                <<Batch("commitTransaction", readOnlyShards, {}),
                  Batch("commitTransaction", writeShards, {})>>
           [] selectedCommitType(recoveryToken) = "twoPhaseCommit" ->
                <<Batch("coordinateCommitTransaction", {coordinatorId},
                        DOMAIN participants)>>

\* a fault: the second fan-out is sent whatever the first one returned
fanOutNeverStops(batches, outcomes) ==
    [sent |-> batches,
     response |-> IF Len(batches) = 0 THEN OkResponse ELSE outcomes[Len(batches)]]

\* The requests sent and the outcome, when the fan-outs of the batches end
\* with outcomes[1], outcomes[2]: a fan-out that fails or returns an error
\* response stops the path.
fanOut(batches, outcomes) ==
    LET stopAt == IF Len(batches) = 0 THEN 0
                  ELSE IF Len(batches) = 1 \/ isErrorResponse(outcomes[1]) THEN 1
                  ELSE 2
    IN [sent |-> SubSeq(batches, 1, stopAt),
        response |-> IF stopAt = 0 THEN OkResponse ELSE outcomes[stopAt]]

\* the invariant() that fails on the commit path, "none" if all hold
commitInvariantFailure(recoveryToken) ==
    IF commitError(recoveryToken) # "OK" THEN "none"
    ELSE IF selectedCommitType(recoveryToken) = "recoverWithToken"
    THEN attachInvariantFailure(recoveryToken)
    ELSE IF selectedCommitType(recoveryToken) = "twoPhaseCommit"
            /\ (coordinatorId = NoShard \/ coordinatorId \notin DOMAIN participants)
    THEN "_handOffCommitToCoordinator"
    ELSE "none"

\* a fault: a result that is unknown ends the transaction as aborted
commitLifecycleEndsOnUnknown(response, cause, ts) ==
    IF response.status = "OK" /\ response.wcOK
    THEN [abortCause |-> cause,
          timingStats |-> endTransactionTrackingIfNecessary(ts),
          ended |-> IF ts.endTime = 0 THEN "committed" ELSE "no"]
    ELSE [abortCause |-> IF cause = "" THEN response.status ELSE cause,
          timingStats |-> endTransactionTrackingIfNecessary(ts),
          ended |-> IF ts.endTime = 0 THEN "aborted" ELSE "no"]

\* commitTransaction: abortCause and timingStats after the commit path
\* returned the response
commitLifecycle(response, cause, ts) ==
    IF isCommitResultUnknown(response.status, response.wcOK)
    THEN [abortCause |-> cause, timingStats |-> ts, ended |-> "no"]
    ELSE IF response.status = "OK"
    THEN [abortCause |-> cause,
          timingStats |-> endTransactionTrackingIfNecessary(ts),
          ended |-> IF ts.endTime = 0 THEN "committed" ELSE "no"]
    ELSE [abortCause |-> IF cause = "" THEN response.status ELSE cause,
          timingStats |-> endTransactionTrackingIfNecessary(ts),
          ended |-> IF ts.endTime = 0 THEN "aborted" ELSE "no"]

\* a fault: the commit-start time is never recorded
commitStartedNever(recoveryToken) == FALSE

\* _commitTransaction: the call reaches _onStartCommit, which every path
\* runs right after it has set commitType
commitStarted(recoveryToken) ==
    \/ selectedCommitType(recoveryToken) # commitType
    \/ commitError(recoveryToken) = "OK"
    \/ (isRecoveringCommit /\ recoveryToken # NoToken)

\* commitTransaction: abortCause and timingStats after the call, and whether
\* it left by a throw (an error before any request, or a request that could
\* not be sent)
commitResult(recoveryToken, outcomes) ==
    LET ts == IF commitStarted(recoveryToken)
              THEN onStartCommit(timingStats) ELSE timingStats
        fo == fanOut(commitBatches(recoveryToken), outcomes)
        life == commitLifecycle(fo.response, abortCause, ts)
    IN IF commitError(recoveryToken) # "OK" \/ fo.response = SendFailure
       THEN [abortCause |-> abortCause, timingStats |-> ts, ended |-> "no",
             threw |-> TRUE]
       ELSE [abortCause |-> life.abortCause, timingStats |-> life.timingStats,
             ended |-> life.ended, threw |-> FALSE]

\* The end of a transaction is logged when debug logging is on or the
\* transaction was slow: _transactionInfoForLog may or may not run.
CommitTransaction(recoveryToken, outcomes) ==
    LET err == commitError(recoveryToken)
        ctype == selectedCommitType(recoveryToken)
        fo == fanOut(commitBatches(recoveryToken), outcomes)
        life == commitResult(recoveryToken, outcomes)
        attaches == err = "OK" /\ ctype = "recoverWithToken"
    IN
    /\ Running
    /\ AtomicOperation
    /\ IF commitInvariantFailure(recoveryToken) # "none" THEN
            InvariantFailure(commitInvariantFailure(recoveryToken))
       ELSE
         \/ /\ err = "OK" /\ fo.response # SendFailure /\ life.ended # "no"
            /\ ~transactionInfoForLogOk(life.ended, ctype, life.abortCause,
                                        IF attaches /\ participants = <<>>
                                        THEN recoveryToken ELSE coordinatorId)
            /\ InvariantFailure("_transactionInfoForLog")
         \/ /\ terminationInitiated' = TRUE
            /\ commitType' = ctype
            /\ IF attaches THEN AttachFields(recoveryToken)
                           ELSE UNCHANGED <<participants, coordinatorId>>
            /\ timingStats' = life.timingStats
            /\ abortCause' = life.abortCause
            /\ UNCHANGED <<txnNumber, readConcernArgs, atClusterTime, recoveryShardId,
                           isRecoveringCommit, firstStmtId, latestStmtId,
                           opAfterClusterTime, envVars, invariantFailed, writeOrder,
                           recoveryAtStmtStart>>

(* ---------------------------------------------------------------------- *)
(* abortTransaction, implicitlyAbortTransaction                           *)
(* ---------------------------------------------------------------------- *)
\* abortTransaction: the error it throws, "OK" if none
abortError(outcome) ==
    IF participants = <<>> THEN "NoSuchTransaction"
    ELSE IF outcome = SendFailure THEN sendFailureError
    ELSE "OK"

\* abortTransaction: the requests it sends
abortBatches ==
    IF participants = <<>> THEN <<>>
    ELSE <<Batch("abortTransaction", DOMAIN participants, {})>>

\* what the fan-out of abortTransaction ends with: all responses OK, a command
\* error, a write-concern error, a request that could not be sent
AbortResponses ==
    {OkResponse, [status |-> "NoSuchTransaction", wcOK |-> TRUE],
     [status |-> "OK", wcOK |-> FALSE], SendFailure}

\* the responses gathered from the participants, in the order they are read
AbortResponseLists == [1..Cardinality(DOMAIN participants) -> AbortResponses]

\* a fault: the last response is returned whatever the earlier ones were
abortResultLast(responses) ==
    IF Len(responses) = 0 THEN OkResponse ELSE responses[Len(responses)]

\* abortTransaction: what reading the gathered responses ends with: the
\* first one that could not be read or has a command or write-concern
\* error, else the last one
abortResult(responses) ==
    LET stops == {i \in 1..Len(responses) : isErrorResponse(responses[i])} IN
    IF Len(responses) = 0 THEN OkResponse
    ELSE IF stops = {} THEN responses[Len(responses)]
    ELSE responses[CHOOSE i \in stops : \A j \in stops : i <= j]

\* _onExplicitAbort, run when abortTransaction is left, by return or by throw
AbortTransaction(outcome) ==
    LET cause == IF abortCause = "" THEN "abort" ELSE abortCause IN
    /\ Running
    /\ AtomicOperation
    /\ participants = <<>> => outcome = OkResponse
    /\ \/ /\ timingStats.endTime = 0
          /\ ~transactionInfoForLogOk("aborted", commitType, cause, coordinatorId)
          /\ InvariantFailure("_transactionInfoForLog")
       \/ /\ terminationInitiated' = (terminationInitiated \/ participants # <<>>)
          /\ abortCause' = cause
          /\ timingStats' = endTransactionTrackingIfNecessary(timingStats)
          /\ UNCHANGED <<txnNumber, readConcernArgs, atClusterTime, participants,
                         coordinatorId, recoveryShardId, commitType, isRecoveringCommit,
                         firstStmtId, latestStmtId, opAfterClusterTime, envVars,
                         invariantFailed, writeOrder, recoveryAtStmtStart>>

\* Error codes of the statuses implicitlyAbortTransaction is called with
ImplicitAbortCodes == {"WriteConflict"}

\* a fault: the implicit aborts carry the write concern
implicitAbortBatchesWithWriteConcern ==
    IF commitType = "twoPhaseCommit" \/ commitType = "recoverWithToken"
       \/ participants = <<>>
    THEN <<>>
    ELSE <<Batch("abortTransaction", DOMAIN participants, {})>>

\* implicitlyAbortTransaction: the requests it sends
implicitAbortBatches ==
    IF commitType = "twoPhaseCommit" \/ commitType = "recoverWithToken"
       \/ participants = <<>>
    THEN <<>>
    ELSE <<BareBatch("abortTransaction", DOMAIN participants)>>

\* a fault: every implicit abort records its own cause
onImplicitAbortOverwrites(code) ==
    IF commitType # "notInitiated" /\ timingStats.endTime = 0
    THEN [abortCause |-> abortCause, timingStats |-> timingStats, ended |-> FALSE]
    ELSE [abortCause |-> code,
          timingStats |-> endTransactionTrackingIfNecessary(timingStats),
          ended |-> timingStats.endTime = 0]

\* _onImplicitAbort: abortCause and timingStats after it
onImplicitAbort(code) ==
    IF commitType # "notInitiated" /\ timingStats.endTime = 0
    THEN [abortCause |-> abortCause, timingStats |-> timingStats, ended |-> FALSE]
    ELSE [abortCause |-> IF abortCause = "" THEN code ELSE abortCause,
          timingStats |-> endTransactionTrackingIfNecessary(timingStats),
          ended |-> timingStats.endTime = 0]

\* a fault: the cause is recorded although the commit was handed off
ImplicitlyAbortTransactionRecordsCause(code) ==
    /\ Running
    /\ AtomicOperation
    /\ IF commitType = "twoPhaseCommit" \/ commitType = "recoverWithToken" THEN
            /\ abortCause' = IF abortCause = "" THEN code ELSE abortCause
            /\ UNCHANGED <<txnNumber, readConcernArgs, atClusterTime, participants,
                           coordinatorId, recoveryShardId, commitType,
                           isRecoveringCommit, terminationInitiated, firstStmtId,
                           latestStmtId, timingStats, opAfterClusterTime, envVars,
                           invariantFailed, writeOrder, recoveryAtStmtStart>>
       ELSE
            /\ terminationInitiated' = (terminationInitiated \/ participants # <<>>)
            /\ abortCause' = onImplicitAbort(code).abortCause
            /\ timingStats' = onImplicitAbort(code).timingStats
            /\ UNCHANGED <<txnNumber, readConcernArgs, atClusterTime, participants,
                           coordinatorId, recoveryShardId, commitType,
                           isRecoveringCommit, firstStmtId, latestStmtId,
                           opAfterClusterTime, envVars, invariantFailed, writeOrder,
                           recoveryAtStmtStart>>

\* The responses to the aborts, and a failure to send them, are ignored.
ImplicitlyAbortTransaction(code) ==
    /\ Running
    /\ AtomicOperation
    /\ IF commitType = "twoPhaseCommit" \/ commitType = "recoverWithToken" THEN
            UNCHANGED vars
       ELSE
         \/ /\ onImplicitAbort(code).ended
            /\ ~transactionInfoForLogOk("aborted", commitType,
                                        onImplicitAbort(code).abortCause, coordinatorId)
            /\ InvariantFailure("_transactionInfoForLog")
         \/ /\ terminationInitiated' = (terminationInitiated \/ participants # <<>>)
            /\ abortCause' = onImplicitAbort(code).abortCause
            /\ timingStats' = onImplicitAbort(code).timingStats
            /\ UNCHANGED <<txnNumber, readConcernArgs, atClusterTime, participants,
                           coordinatorId, recoveryShardId, commitType,
                           isRecoveringCommit, firstStmtId, latestStmtId,
                           opAfterClusterTime, envVars, invariantFailed, writeOrder,
                           recoveryAtStmtStart>>

(* ---------------------------------------------------------------------- *)
(* appendRecoveryToken, stash                                             *)
(* ---------------------------------------------------------------------- *)
\* the recoveryShardId of the token appendRecoveryToken appends, NoShard for
\* an empty token
appendedRecoveryToken == recoveryShardId

\* appendRecoveryToken: its invariant holds.  When recoveryShardId is not a
\* participant, find() returns end() and reading through it is undefined.
appendRecoveryTokenOk ==
    recoveryShardId # NoShard =>
        /\ recoveryShardId \in DOMAIN participants
        /\ participants[recoveryShardId].readOnly = "notReadOnly"

AppendRecoveryToken ==
    /\ Running
    /\ AtomicOperation
    /\ \/ /\ ~appendRecoveryTokenOk
          /\ InvariantFailure("appendRecoveryToken")
       \/ /\ appendRecoveryTokenOk \/ recoveryShardId \notin DOMAIN participants
          /\ UNCHANGED vars

Stash ==
    /\ Running
    /\ AtomicOperation
    /\ timingStats' = trySetInactive(timingStats, ticks)
    /\ UNCHANGED <<txnNumber, readConcernArgs, atClusterTime, participants,
                   coordinatorId, recoveryShardId, commitType, isRecoveringCommit,
                   terminationInitiated, firstStmtId, latestStmtId, abortCause,
                   opAfterClusterTime, envVars, invariantFailed, writeOrder,
                   recoveryAtStmtStart>>

(* ---------------------------------------------------------------------- *)
(* Environment                                                            *)
(* ---------------------------------------------------------------------- *)
\* the tick source advances
Tick ==
    /\ Running
    /\ AtomicOperation
    /\ ticks < MaxTicks
    /\ ticks' = ticks + 1
    /\ UNCHANGED <<routerVars, opAfterClusterTime, clusterTime, invariantFailed,
                   writeOrder, recoveryAtStmtStart>>

\* The inputs of commitTransaction that the call looks at: the token of a
\* recovering commit, and the outcome of a second fan-out if there is one.
CommitTokens == IF isRecoveringCommit THEN RecoveryTokens ELSE {NoToken}

SecondOutcomes(recoveryToken, firstOutcome) ==
    IF Len(commitBatches(recoveryToken)) = 2 /\ ~isErrorResponse(firstOutcome)
    THEN FanOutOutcomes ELSE {OkResponse}

Next ==
    \/ \E n \in TxnNumbers, a \in TransactionActions :
          \E rc \in IF a = "commit" THEN {EmptyReadConcern} ELSE ReadConcernArgsSet :
             BeginOrContinueTxn(n, a, rc)
    \/ \E now \in ClusterTimes : SetDefaultAtClusterTime(now)
    \/ \E s \in Shards : AttachTxnFieldsIfNeeded(s)
    \/ \E s \in Shards, r \in [ok : BOOLEAN, readOnly : BOOLEAN] :
          ProcessParticipantResponse(s, r)
    \/ \E rs \in AbortResponseLists : AbortTransaction(abortResult(rs))
    \/ \E c \in ImplicitAbortCodes : ImplicitlyAbortTransaction(c)
    \/ AppendRecoveryToken
    \/ Stash
    \/ \E fp \in BOOLEAN, c \in StatementCmdNames, o \in AbortOutcomes :
          OnStaleShardOrDbError(fp, c, o)
    \/ \E o \in AbortOutcomes : OnViewResolutionError(o)
    \/ \E fp \in BOOLEAN, o \in AbortOutcomes : OnSnapshotError(fp, o)
    \/ \E t \in CommitTokens, o1 \in FanOutOutcomes :
          \E o2 \in SecondOutcomes(t, o1) : CommitTransaction(t, <<o1, o2>>)

\* The tick source stands still under Spec; under TimedSpec it advances.
Spec == Init /\ [][Next]_vars

TimedNext == Next \/ Tick

TimedSpec == Init /\ [][TimedNext]_vars

(* ---------------------------------------------------------------------- *)
(* Critical sections under the client lock                                *)
(* ---------------------------------------------------------------------- *)
\* An observer that takes the client lock sees the router between two
\* critical sections of the operation in progress. The steps below are the
\* critical sections of _createParticipant, _clearPendingParticipants and the
\* start of a transaction; pc tells which section comes next.
At(label, shards, rc) == [at |-> label, shards |-> shards, rc |-> rc]

\* _createParticipant for the first participant, first critical section: the
\* shard becomes the coordinator
CreateParticipantSetCoordinator(shard) ==
    /\ Running
    /\ UNCHANGED applierVars
    /\ pc = Idle
    /\ participants = <<>>
    /\ attachInvariantFailure(shard) = "none"
    /\ coordinatorId' = shard
    /\ pc' = At("_createParticipant", {shard}, EmptyReadConcern)
    /\ UNCHANGED <<txnNumber, readConcernArgs, atClusterTime, participants,
                   recoveryShardId, commitType, isRecoveringCommit,
                   terminationInitiated, firstStmtId, latestStmtId, abortCause,
                   timingStats, opAfterClusterTime, envVars, invariantFailed,
                   writeOrder, recoveryAtStmtStart>>

\* _createParticipant, second critical section: the participant is added
CreateParticipantEmplace ==
    /\ Running
    /\ UNCHANGED applierVars
    /\ pc.at = "_createParticipant"
    /\ \E shard \in pc.shards :
           participants' = Emplace(participants, shard, createdParticipant(shard))
    /\ pc' = Idle
    /\ UNCHANGED <<txnNumber, readConcernArgs, atClusterTime, coordinatorId,
                   recoveryShardId, commitType, isRecoveringCommit,
                   terminationInitiated, firstStmtId, latestStmtId, abortCause,
                   timingStats, opAfterClusterTime, envVars, invariantFailed,
                   writeOrder, recoveryAtStmtStart>>

\* _clearPendingParticipants up to its first critical section: the pending
\* participants are collected and their aborts are answered OK
ClearPendingCollect ==
    /\ Running
    /\ UNCHANGED applierVars
    /\ pc = Idle
    /\ pc' = At("_clearPendingParticipants", _getPendingParticipants, EmptyReadConcern)
    /\ UNCHANGED <<routerVars, opAfterClusterTime, envVars, invariantFailed,
                   writeOrder, recoveryAtStmtStart>>

\* the pending participant the loop of _clearPendingParticipants removes next:
\* the participants are kept in the order of their shard ids
nextToErase(shards) == CHOOSE s \in shards : \A t \in shards : s <= t

\* one critical section of the loop: a pending participant is erased
ClearPendingErase ==
    /\ Running
    /\ UNCHANGED applierVars
    /\ pc.at = "_clearPendingParticipants"
    /\ pc.shards # {}
    /\ LET shard == nextToErase(pc.shards) IN
           /\ recoveryShardId' = IF recoveryShardId = shard THEN NoShard
                                 ELSE recoveryShardId
           /\ participants' = Erase(participants, {shard})
           /\ writeOrder' = SelectSeq(writeOrder, LAMBDA s : s # shard)
           /\ pc' = At("_clearPendingParticipants", pc.shards \ {shard}, EmptyReadConcern)
    /\ UNCHANGED <<txnNumber, readConcernArgs, atClusterTime, coordinatorId,
                   commitType, isRecoveringCommit, terminationInitiated,
                   firstStmtId, latestStmtId, abortCause, timingStats,
                   opAfterClusterTime, envVars, invariantFailed,
                   recoveryAtStmtStart>>

\* the end of _clearPendingParticipants: in a critical section of its own the
\* coordinator is reset if no participant is left
ClearPendingResetCoordinator ==
    /\ Running
    /\ UNCHANGED applierVars
    /\ pc.at = "_clearPendingParticipants"
    /\ pc.shards = {}
    /\ pc' = Idle
    /\ IF participants = <<>> THEN
            /\ coordinatorId' = NoShard
            /\ UNCHANGED <<txnNumber, readConcernArgs, atClusterTime, participants,
                           recoveryShardId, commitType, isRecoveringCommit,
                           terminationInitiated, firstStmtId, latestStmtId,
                           abortCause, timingStats, opAfterClusterTime, envVars,
                           invariantFailed, writeOrder, recoveryAtStmtStart>>
       ELSE IF clearInvariantFailure(DOMAIN participants) # "none" THEN
            InvariantFailure(clearInvariantFailure(DOMAIN participants))
       ELSE
            UNCHANGED <<routerVars, opAfterClusterTime, envVars, invariantFailed,
                        writeOrder, recoveryAtStmtStart>>

\* beginOrContinueTxn starting a transaction, first critical section:
\* _resetRouterState
BeginResetRouterState(txnNum, rc) ==
    /\ Running
    /\ UNCHANGED applierVars
    /\ pc = Idle
    /\ txnNum > txnNumber
    /\ beginOrContinueError(txnNum, "start", rc) = "OK"
    /\ ResetRouterState(txnNum, "start", EmptyReadConcern)
    /\ opAfterClusterTime' = rc.afterClusterTime
    /\ writeOrder' = <<>>
    /\ recoveryAtStmtStart' = NoShard
    /\ pc' = At("beginOrContinueTxn:readConcernArgs", {}, rc)
    /\ UNCHANGED <<envVars, invariantFailed>>

\* second critical section: the operation's read concern is stored
BeginStoreReadConcern ==
    /\ Running
    /\ UNCHANGED applierVars
    /\ pc.at = "beginOrContinueTxn:readConcernArgs"
    /\ readConcernArgs' = pc.rc
    /\ pc' = IF pc.rc.level = "snapshot"
             THEN At("beginOrContinueTxn:atClusterTime", {}, EmptyReadConcern)
             ELSE Idle
    /\ UNCHANGED <<txnNumber, atClusterTime, participants, coordinatorId,
                   recoveryShardId, commitType, isRecoveringCommit,
                   terminationInitiated, firstStmtId, latestStmtId, abortCause,
                   timingStats, opAfterClusterTime, envVars, invariantFailed,
                   writeOrder, recoveryAtStmtStart>>

\* third critical section, of a snapshot transaction: the holder is emplaced
BeginEmplaceAtClusterTime ==
    /\ Running
    /\ UNCHANGED applierVars
    /\ pc.at = "beginOrContinueTxn:atClusterTime"
    /\ atClusterTime' = EmptyAtClusterTime
    /\ pc' = Idle
    /\ UNCHANGED <<txnNumber, readConcernArgs, participants, coordinatorId,
                   recoveryShardId, commitType, isRecoveringCommit,
                   terminationInitiated, firstStmtId, latestStmtId, abortCause,
                   timingStats, opAfterClusterTime, envVars, invariantFailed,
                   writeOrder, recoveryAtStmtStart>>

\* The router as an observer under the client lock sees it: the operations
\* above step from one critical section to the next, the others run as one
\* step.
ObserverNext ==
    \/ \E n \in TxnNumbers, rc \in ReadConcernArgsSet : BeginResetRouterState(n, rc)
    \/ BeginStoreReadConcern
    \/ BeginEmplaceAtClusterTime
    \/ \E n \in TxnNumbers : BeginOrContinueTxn(n, "continue", EmptyReadConcern)
    \/ \E now \in ClusterTimes : SetDefaultAtClusterTime(now)
    \/ \E s \in Shards : CreateParticipantSetCoordinator(s)
    \/ CreateParticipantEmplace
    \/ \E s \in Shards : participants # <<>> /\ AttachTxnFieldsIfNeeded(s)
    \/ \E s \in Shards, r \in [ok : BOOLEAN, readOnly : BOOLEAN] :
          ProcessParticipantResponse(s, r)
    \/ ClearPendingCollect
    \/ ClearPendingErase
    \/ ClearPendingResetCoordinator

ObserverSpec == Init /\ [][ObserverNext]_vars

\* A client that commits, and retries the commit, while time passes: no
\* statement-level retry, no read concern, no explicit abort.
CommitRetryNext ==
    \/ \E n \in TxnNumbers, a \in TransactionActions :
          BeginOrContinueTxn(n, a, EmptyReadConcern)
    \/ \E s \in Shards : AttachTxnFieldsIfNeeded(s)
    \/ \E s \in Shards, r \in [ok : BOOLEAN, readOnly : BOOLEAN] :
          ProcessParticipantResponse(s, r)
    \/ \E c \in ImplicitAbortCodes : ImplicitlyAbortTransaction(c)
    \/ \E t \in CommitTokens, o1 \in FanOutOutcomes :
          \E o2 \in SecondOutcomes(t, o1) : CommitTransaction(t, <<o1, o2>>)
    \/ Tick

CommitRetrySpec == Init /\ [][CommitRetryNext]_vars

\* A client that runs statements, stashes, commits, retries the commit and
\* aborts while time passes: no statement-level retry and no read concern.
LifecycleNext ==
    \/ \E n \in TxnNumbers, a \in TransactionActions :
          BeginOrContinueTxn(n, a, EmptyReadConcern)
    \/ \E s \in Shards : AttachTxnFieldsIfNeeded(s)
    \/ \E s \in Shards, r \in [ok : BOOLEAN, readOnly : BOOLEAN] :
          ProcessParticipantResponse(s, r)
    \/ Stash
    \/ \E rs \in AbortResponseLists : AbortTransaction(abortResult(rs))
    \/ \E c \in ImplicitAbortCodes : ImplicitlyAbortTransaction(c)
    \/ \E t \in CommitTokens, o1 \in FanOutOutcomes :
          \E o2 \in SecondOutcomes(t, o1) : CommitTransaction(t, <<o1, o2>>)
    \/ Tick

LifecycleSpec == Init /\ [][LifecycleNext]_vars

\* The events that drive the timing statistics of a transaction without
\* participants, with a tick source that runs longer.
AccountingTick ==
    /\ Running
    /\ AtomicOperation
    /\ ticks < MaxAccountingTicks
    /\ ticks' = ticks + 1
    /\ UNCHANGED <<routerVars, opAfterClusterTime, clusterTime, invariantFailed,
                   writeOrder, recoveryAtStmtStart>>

AccountingNext ==
    \/ \E n \in TxnNumbers, a \in TransactionActions :
          BeginOrContinueTxn(n, a, EmptyReadConcern)
    \/ Stash
    \/ AbortTransaction(OkResponse)
    \/ \E c \in ImplicitAbortCodes : ImplicitlyAbortTransaction(c)
    \/ \E t \in CommitTokens : CommitTransaction(t, <<OkResponse, OkResponse>>)
    \/ AccountingTick

AccountingSpec == Init /\ [][AccountingNext]_vars

(* ---------------------------------------------------------------------- *)
(* Oplog application: readTransactionOperationsFromOplogChain             *)
(* ---------------------------------------------------------------------- *)
\* An oplog entry of a transaction: its op time, the op time of the previous
\* entry of the same transaction (NullOpTime if none), its kind, and the ids
\* of the operations in its applyOps array. A prepared commit is a
\* commitTransaction command and carries no applyOps array.
NullOpTime == 0

isPartialTransaction(entry) == entry.kind = "partial"

isPreparedCommit(entry) == entry.kind = "preparedCommit"

isApplyOps(entry) == entry.kind \in {"partial", "prepare", "unpreparedCommit"}

\* std::reverse
Reverse(s) == [i \in 1..Len(s) |-> s[Len(s) + 1 - i]]

\* ApplyOps::extractOperationsTo: the operations of the entry's applyOps
\* array, in the order of the array, are appended; each takes the fields that
\* are not its own from the top-level entry
extractOperationsTo(entry, topLevel, operations) ==
    operations \o [i \in 1..Len(entry.ops) |->
                      [id |-> entry.ops[i], ts |-> topLevel.opTime]]

\* the loop over the TransactionHistoryIterator positioned at opTime without
\* the reversal of all operations that follows it
RECURSIVE readWrittenEntriesUnreversed(_, _, _, _)
readWrittenEntriesUnreversed(log, opTime, topLevel, operations) ==
    IF opTime = NullOpTime THEN operations
    ELSE LET operationEntry == log[opTime]
             prevOpsEnd == Len(operations)
             extracted == extractOperationsTo(operationEntry, topLevel, operations)
         IN readWrittenEntriesUnreversed(
               log, operationEntry.prevOpTime, topLevel,
               SubSeq(extracted, 1, prevOpsEnd) \o
                  Reverse(SubSeq(extracted, prevOpsEnd + 1, Len(extracted))))

\* the loop over the TransactionHistoryIterator positioned at opTime, and the
\* reversal of all operations after it
readWrittenEntries(log, opTime, topLevel) ==
    Reverse(readWrittenEntriesUnreversed(log, opTime, topLevel, <<>>))

\* the loop over the cached entries
RECURSIVE readCachedEntries(_, _, _)
readCachedEntries(cached, topLevel, operations) ==
    IF cached = <<>> THEN operations
    ELSE readCachedEntries(Tail(cached), topLevel,
                           extractOperationsTo(Head(cached), topLevel, operations))

\* the op time of the latest entry expected in the oplog
lastEntryWrittenToOplogOpTime(last, cached) ==
    (IF cached = <<>> THEN last ELSE Head(cached)).prevOpTime

\* the entries the iterator returns from opTime on, newest first
RECURSIVE entriesFrom(_, _)
entriesFrom(log, opTime) ==
    IF opTime = NullOpTime THEN <<>>
    ELSE <<log[opTime]>> \o entriesFrom(log, log[opTime].prevOpTime)

\* the first invariant() of readTransactionOperationsFromOplogChain that
\* fails, "none" if none does
readInvariantFailure(log, last, cached) ==
    LET written == lastEntryWrittenToOplogOpTime(last, cached)
        chain == entriesFrom(log, written)
        iterated == IF isPreparedCommit(last) THEN Tail(chain) ELSE chain
    IN IF ~(written < last.opTime) THEN "lastEntryWrittenToOplogOpTime"
       ELSE IF isPreparedCommit(last) /\ cached # <<>> THEN "cachedOps.empty"
       ELSE IF isPreparedCommit(last) /\ written = NullOpTime THEN "iter.hasNext"
       ELSE IF ~isApplyOps(IF isPreparedCommit(last) THEN Head(chain) ELSE last)
            THEN "kApplyOps"
       ELSE IF \E i \in 1..Len(iterated) : ~isPartialTransaction(iterated[i])
            THEN "isPartialTransaction"
       ELSE IF \E i \in 1..Len(cached) : ~isPartialTransaction(cached[i])
            THEN "isPartialTransaction"
       ELSE "none"

readTransactionOperationsFromOplogChainUnreversed(log, last, cached) ==
    LET written == lastEntryWrittenToOplogOpTime(last, cached)
        prepareOrUnpreparedCommit ==
            IF isPreparedCommit(last) THEN log[written] ELSE last
        iter == IF isPreparedCommit(last) THEN log[written].prevOpTime ELSE written
    IN extractOperationsTo(
          prepareOrUnpreparedCommit, last,
          readCachedEntries(cached, last,
                            readWrittenEntriesUnreversed(log, iter, last, <<>>)))

readTransactionOperationsFromOplogChain(log, last, cached) ==
    LET written == lastEntryWrittenToOplogOpTime(last, cached)
        prepareOrUnpreparedCommit ==
            IF isPreparedCommit(last) THEN log[written] ELSE last
        iter == IF isPreparedCommit(last) THEN log[written].prevOpTime ELSE written
    IN extractOperationsTo(
          prepareOrUnpreparedCommit, last,
          readCachedEntries(cached, last, readWrittenEntries(log, iter, last)))

\* The chains of a transaction: numPartial partial entries, then a prepare or
\* an unprepared commit, each entry following the one before; entry i holds
\* sizes[i] operations, and the operations are numbered in the order in which
\* the transaction made them.
firstOpOf(sizes, i) ==
    LET RECURSIVE before(_)
        before(j) == IF j = 0 THEN 0 ELSE sizes[j] + before(j - 1)
    IN before(i - 1)

chainEntry(sizes, i, kind) ==
    [opTime |-> i, prevOpTime |-> i - 1, kind |-> kind,
     ops |-> [j \in 1..sizes[i] |-> firstOpOf(sizes, i) + j]]

partialEntries(sizes, from, to) ==
    [i \in 1..(to - from + 1) |-> chainEntry(sizes, from + i - 1, "partial")]

\* an unprepared commit or a prepare is applied; the last numCached partial
\* entries are in its batch, the others are written
BatchInputs ==
    { [oplog |-> partialEntries(sizes, 1, numPartial - numCached),
       cachedOps |-> partialEntries(sizes, numPartial - numCached + 1, numPartial),
       lastEntryInTxn |-> chainEntry(sizes, numPartial + 1, kind)] :
         <<numPartial, numCached, kind, sizes>> \in
            UNION { {numPartial} \X (0..numPartial) \X {"prepare", "unpreparedCommit"}
                     \X [1..(numPartial + 1) -> 1..MaxOpsPerEntry] :
                    numPartial \in 0..MaxPartialEntries } }

\* a prepared commit is applied: the partial entries and the prepare are
\* written, the batch holds the commit alone
PreparedCommitInputs ==
    { [oplog |-> partialEntries(sizes, 1, numPartial) \o
                    <<chainEntry(sizes, numPartial + 1, "prepare")>>,
       cachedOps |-> <<>>,
       lastEntryInTxn |-> [opTime |-> numPartial + 2, prevOpTime |-> numPartial + 1,
                           kind |-> "preparedCommit", ops |-> <<>>]] :
         <<numPartial, sizes>> \in
            UNION { {numPartial} \X [1..(numPartial + 1) -> 1..MaxOpsPerEntry] :
                    numPartial \in 0..MaxPartialEntries } }

InitApplyingChain ==
    /\ \E input \in BatchInputs \cup PreparedCommitInputs :
          /\ oplog = input.oplog
          /\ cachedOps = input.cachedOps
          /\ lastEntryInTxn = input.lastEntryInTxn
    /\ ops = <<>>
    /\ applierPc = "read"

ReadTransactionOperationsFromOplogChain ==
    /\ applierPc = "read"
    /\ IF readInvariantFailure(oplog, lastEntryInTxn, cachedOps) # "none" THEN
            /\ invariantFailed' = readInvariantFailure(oplog, lastEntryInTxn, cachedOps)
            /\ UNCHANGED ops
       ELSE /\ ops' = readTransactionOperationsFromOplogChain(oplog, lastEntryInTxn,
                                                             cachedOps)
            /\ UNCHANGED invariantFailed
    /\ applierPc' = "done"
    /\ UNCHANGED <<routerVars, opAfterClusterTime, envVars, writeOrder,
                   recoveryAtStmtStart, pc, oplog, cachedOps, lastEntryInTxn>>

OplogApplicationNext == ReadTransactionOperationsFromOplogChain

OplogApplicationInit == InitRouter /\ InitApplyingChain

OplogApplicationSpec == OplogApplicationInit /\ [][OplogApplicationNext]_vars

(* ---------------------------------------------------------------------- *)
(* C1: selection of the commit path                                       *)
(* ---------------------------------------------------------------------- *)
\* the commit type the table of commit paths gives for the router's state
C1_TableType ==
    IF isRecoveringCommit THEN "recoverWithToken"
    ELSE IF Cardinality(DOMAIN participants) = 0 THEN "noShards"
    ELSE IF Cardinality(DOMAIN participants) = 1 THEN "singleShard"
    ELSE IF Cardinality(writeShards) = 0 THEN "readOnly"
    ELSE IF Cardinality(writeShards) = 1 THEN "singleWriteShard"
    ELSE "twoPhaseCommit"

\* C1 as stated: in a transaction, commitTransaction that finds no unset
\* participant sets commitType to the type of the table, which depends on
\* nothing but isRecoveringCommit, the participant count and the notReadOnly
\* count.
C1_AsStated ==
    \A t \in CommitTokens :
       /\ txnNumber # kUninitializedTxnNumber
       /\ isRecoveringCommit \/ participants = <<>> \/ unsetShards = {}
       => selectedCommitType(t) = C1_TableType

\* the calls of commitTransaction that fail before a commit type is chosen:
\* a recovering commit without a recovery token (50940), a commit on a router
\* that never began a transaction (IllegalOperation), and a commit that finds
\* an unset participant (NoSuchTransaction)
C1_FailsBeforeSelection(t) ==
    \/ isRecoveringCommit /\ t = NoToken
    \/ ~isRecoveringCommit /\ participants = <<>> /\ txnNumber = kUninitializedTxnNumber
    \/ ~isRecoveringCommit /\ participants # <<>> /\ unsetShards # {}

\* C1: commitTransaction sets commitType to the type of the table, unless it
\* fails before the selection, and then commitType keeps its value; no step
\* gives commitType another value than that of the table; for twoPhaseCommit
\* the only request is coordinateCommitTransaction to coordinatorId, a
\* participant, with the participant set as its list.
C1_CommitTypeSelection ==
    /\ [](\A t \in CommitTokens :
             /\ selectedCommitType(t) = IF C1_FailsBeforeSelection(t)
                                        THEN commitType ELSE C1_TableType
             /\ commitError(t) = "OK" /\ selectedCommitType(t) = "twoPhaseCommit" =>
                   /\ coordinatorId \in DOMAIN participants
                   /\ commitBatches(t) =
                         <<Batch("coordinateCommitTransaction", {coordinatorId},
                                 DOMAIN participants)>>)
    /\ [][commitType' # commitType /\ commitType' # "notInitiated"
             => commitType' = C1_TableType]_vars

\* a two-phase commit was chosen for two participants that wrote
C1_Witness ==
    /\ commitType = "twoPhaseCommit"
    /\ Cardinality(writeShards) >= 2
    /\ txnNumber # kUninitializedTxnNumber

(* ---------------------------------------------------------------------- *)
(* C2, C3: the snapshot time                                              *)
(* ---------------------------------------------------------------------- *)
\* a participant exists that was created at a statement before the current one
C2_EarlierParticipant ==
    \E s \in DOMAIN participants : participants[s].stmtIdCreatedAt < latestStmtId

\* C2: in a snapshot transaction with a participant created at an earlier
\* statement, canChange(latestStmtId) is false and no step of the same
\* transaction changes the time of atClusterTime.
C2_SnapshotFrozen ==
    /\ [](atClusterTime.present /\ C2_EarlierParticipant
             => ~canChange(atClusterTime, latestStmtId))
    /\ [][atClusterTime.present /\ C2_EarlierParticipant
             /\ txnNumber' = txnNumber /\ invariantFailed' = "none"
             => atClusterTime'.time = atClusterTime.time]_vars

\* a snapshot transaction at a later statement than one of its participants,
\* its time chosen before the latest cluster time
C2_Witness ==
    /\ atClusterTimeHasBeenSet
    /\ C2_EarlierParticipant
    /\ atClusterTime.time < MaxClusterTime

\* C3: whenever the time of atClusterTime is set, every participant's
\* sharedOptions.atClusterTime equals it, and the check of a participant
\* lookup never fails.
C3_ParticipantsShareAtClusterTime ==
    /\ atClusterTimeHasBeenSet =>
          \A s \in DOMAIN participants :
             participants[s].sharedOptions.atClusterTime = atClusterTime.time
    /\ invariantFailed # "_verifyParticipantAtClusterTime"

(* ---------------------------------------------------------------------- *)
(* C4: the readOnly state of a participant                                *)
(* ---------------------------------------------------------------------- *)
\* a step of one transaction takes a participant from one readOnly state to
\* another
C4_Transition(from, to) ==
    /\ txnNumber # kUninitializedTxnNumber /\ txnNumber' = txnNumber
    /\ \E s \in (DOMAIN participants) \cap (DOMAIN participants') :
          participants[s].readOnly = from /\ participants'[s].readOnly = to

\* C4 as stated: within one transaction no participant goes from readOnly to
\* notReadOnly nor from notReadOnly to readOnly, and a response that would
\* cause either fails and leaves the state.
C4_AsStated ==
    [][/\ ~C4_Transition("readOnly", "notReadOnly")
       /\ ~C4_Transition("notReadOnly", "readOnly")]_vars

\* C4: within one transaction no participant goes from notReadOnly to
\* readOnly, nor from a set state back to unset; a readOnly response for a
\* notReadOnly participant fails with 51113; a response without the readOnly
\* marker for a readOnly participant is accepted.
C4_ReadOnlyTransitions ==
    /\ [][/\ ~C4_Transition("notReadOnly", "readOnly")
           /\ ~C4_Transition("notReadOnly", "unset")
           /\ ~C4_Transition("readOnly", "unset")]_vars
    /\ [](\A s \in DOMAIN participants :
             /\ participants[s].readOnly = "notReadOnly"
                   => processParticipantResponseError(s, TRUE) = "51113"
             /\ participants[s].readOnly = "readOnly"
                   => processParticipantResponseError(s, FALSE) = "OK")

\* a participant that wrote, before commit or abort, so that a readOnly
\* response for it is looked at
C4_Witness ==
    /\ ~terminationInitiated
    /\ \E s \in DOMAIN participants :
          /\ participants[s].readOnly = "notReadOnly"
          /\ participants[s].stmtIdCreatedAt < latestStmtId

(* ---------------------------------------------------------------------- *)
(* C5, C6, C7: beginOrContinueTxn                                         *)
(* ---------------------------------------------------------------------- *)
\* C5: no step of a running router lowers txnNumber, and every call with a
\* txnNumber below the stored one fails with TransactionTooOld.
C5_TxnNumberNeverDecreases ==
    /\ [][invariantFailed' = "none" => txnNumber' >= txnNumber]_vars
    /\ [](\A n \in TxnNumbers, a \in TransactionActions, rc \in ReadConcernArgsSet :
             n < txnNumber => beginOrContinueError(n, a, rc) = "TransactionTooOld")

\* the session has seen a txnNumber above the lowest one
C5_Witness == txnNumber > 0 /\ latestStmtId > 0

\* the fields a failing beginOrContinueTxn leaves alone
C6_Fields ==
    <<txnNumber, participants, coordinatorId, recoveryShardId, commitType,
      latestStmtId, atClusterTime, isRecoveringCommit, terminationInitiated>>

\* C6: start at the stored txnNumber fails with ConflictingOperationInProgress,
\* continue at a greater one with NoSuchTransaction, continue of the stored
\* one with a read concern and start of a greater one with a level other than
\* snapshot, majority, local with InvalidOptions; no failing call changes
\* the fields of C6_Fields.
C6_BeginErrors ==
    \A n \in TxnNumbers, a \in TransactionActions, rc \in ReadConcernArgsSet :
       LET err == beginOrContinueError(n, a, rc) IN
       /\ n = txnNumber /\ a = "start" => err = "ConflictingOperationInProgress"
       /\ n > txnNumber /\ a = "continue" => err = "NoSuchTransaction"
       /\ n = txnNumber /\ a = "continue" /\ ~isEmpty(rc) => err = "InvalidOptions"
       /\ n > txnNumber /\ a = "start" /\ hasLevel(rc)
             /\ ~isReadConcernLevelAllowedInTransaction(rc.level)
             => err = "InvalidOptions"
       /\ err # "OK" =>
             ~ENABLED (BeginOrContinueTxn(n, a, rc) /\ C6_Fields' # C6_Fields)

\* a transaction with a participant, a coordinator, a recovery shard and a
\* commit type, at its second statement: every failing call has something
\* to leave alone
C6_Witness ==
    /\ txnNumber = 0 /\ latestStmtId = 1
    /\ recoveryShardId # NoShard /\ coordinatorId # NoShard
    /\ commitType # "notInitiated" /\ terminationInitiated

\* C7: a step that raises txnNumber leaves nothing of the previous
\* transaction and sets isRecoveringCommit iff it is a commit; no other step
\* of a running router changes isRecoveringCommit.
C7_ResetOnNewTransaction ==
    /\ [][txnNumber' > txnNumber =>
             /\ participants' = <<>>
             /\ coordinatorId' = NoShard /\ recoveryShardId' = NoShard
             /\ commitType' = "notInitiated" /\ abortCause' = ""
             /\ ~terminationInitiated'
             /\ firstStmtId' = 0 /\ latestStmtId' = 0
             /\ IF isRecoveringCommit'
                THEN BeginOrContinueTxn(txnNumber', "commit", EmptyReadConcern)
                ELSE \E rc \in ReadConcernArgsSet :
                        BeginOrContinueTxn(txnNumber', "start", rc)]_vars
    /\ [][txnNumber' = txnNumber /\ invariantFailed' = "none"
             => isRecoveringCommit' = isRecoveringCommit]_vars

\* a commit opened a transaction above the lowest txnNumber and the router
\* went on to the next statement
C7_Witness == txnNumber > 0 /\ isRecoveringCommit /\ latestStmtId > 0

(* ---------------------------------------------------------------------- *)
(* C8, C9, C10: the recovery shard                                        *)
(* ---------------------------------------------------------------------- *)
\* the participants that are notReadOnly now, in the order their write
\* responses were processed
C8_WritersInOrder == SelectSeq(writeOrder, LAMBDA s : s \in writeShards)

\* C8: in a transaction, the token appendRecoveryToken appends carries the
\* first participant, by write order, among those notReadOnly now, and is
\* empty when no participant is notReadOnly.
C8_RecoveryTokenIsFirstWriter ==
    txnNumber # kUninitializedTxnNumber =>
       appendedRecoveryToken = IF writeShards = {} THEN NoShard
                               ELSE C8_WritersInOrder[1]

\* C9: a recovery shard that is set names a participant that is notReadOnly,
\* and the check of appendRecoveryToken never fails.
C9_RecoveryShardIsWriter ==
    /\ recoveryShardId # NoShard =>
          /\ recoveryShardId \in DOMAIN participants
          /\ participants[recoveryShardId].readOnly = "notReadOnly"
    /\ appendRecoveryTokenOk
    /\ invariantFailed # "appendRecoveryToken"

\* the recovery shard outlived a retry that removed the other participant
C9_Witness ==
    /\ recoveryShardId # NoShard
    /\ DOMAIN participants = {recoveryShardId}
    /\ participants[recoveryShardId].stmtIdCreatedAt < latestStmtId
    /\ coordinatorId = recoveryShardId

\* C10: the recovery shard a statement began with is the recovery shard in
\* every later state of the transaction.
C10_RecoveryShardStable ==
    recoveryAtStmtStart # NoShard => recoveryShardId = recoveryAtStmtStart

\* a statement began with a recovery shard and the transaction went on to
\* commit or abort
C10_Witness ==
    /\ recoveryAtStmtStart # NoShard
    /\ recoveryShardId = recoveryAtStmtStart
    /\ terminationInitiated
    /\ Cardinality(DOMAIN participants) >= 2

(* ---------------------------------------------------------------------- *)
(* C11, C12: commit type, participants and coordinator                    *)
(* ---------------------------------------------------------------------- *)
\* C11: whenever commitType is recoverWithToken, participants is empty and
\* isRecoveringCommit is true.
C11_RecoverWithTokenHasNoParticipants ==
    commitType = "recoverWithToken" => participants = <<>> /\ isRecoveringCommit

\* C12: coordinatorId is unset exactly when participants is empty; when set
\* it is a participant, the one created while participants was empty, and no
\* participant was created at an earlier statement; removing the pending
\* participants passes the checks at the end of _clearPendingParticipants,
\* and no check on the coordinator ever failed.
C12_CoordinatorIsFirstParticipant ==
    /\ coordinatorId = NoShard <=> participants = <<>>
    /\ coordinatorId # NoShard =>
          /\ coordinatorId \in DOMAIN participants
          /\ \A s \in DOMAIN participants :
                /\ participants[s].isCoordinator <=> s = coordinatorId
                /\ participants[s].stmtIdCreatedAt
                      >= participants[coordinatorId].stmtIdCreatedAt
    /\ clearInvariantFailure((DOMAIN participants) \ _getPendingParticipants) = "none"
    /\ invariantFailed \notin
          {"_clearPendingParticipants", "_createParticipant", "_handOffCommitToCoordinator"}

\* a retry removed the pending participant that was the recovery shard and
\* left the coordinator, which wrote at an earlier statement
C12_Witness ==
    /\ recoveryShardId = NoShard
    /\ coordinatorId \in writeShards
    /\ participants[coordinatorId].stmtIdCreatedAt < latestStmtId

(* ---------------------------------------------------------------------- *)
(* C13, C14: direct commit                                                *)
(* ---------------------------------------------------------------------- *)
\* C13: when the transaction is not a recovering commit and some participant
\* is unset, commitTransaction fails with NoSuchTransaction, sends no request
\* and leaves commitType, whatever the number of participants.
C13_UnsetParticipantFailsCommit ==
    ~isRecoveringCommit /\ unsetShards # {} =>
       \A t \in RecoveryTokens :
          /\ commitError(t) = "NoSuchTransaction"
          /\ commitBatches(t) = <<>>
          /\ selectedCommitType(t) = commitType

\* a commit of two participants, one of them unset, has failed: termination
\* is initiated, yet no commit type is chosen and the transaction has not
\* ended
C13_Witness ==
    /\ txnNumber # kUninitializedTxnNumber /\ ~isRecoveringCommit
    /\ unsetShards # {} /\ Cardinality(DOMAIN participants) >= 2
    /\ terminationInitiated /\ commitType = "notInitiated"
    /\ timingStats.endTime = 0

\* C14: in a singleWriteShard commit the first requests go to the read-only
\* participants and the second to the single write shard; when the first
\* fan-out ends with a command error or write-concern error, that response
\* is the result and nothing is sent to the write shard; otherwise the write
\* shard's response is the result.
C14_WriteShardCommitsLast ==
    \A t \in CommitTokens :
       commitError(t) = "OK" /\ selectedCommitType(t) = "singleWriteShard" =>
          /\ Cardinality(writeShards) = 1 /\ readOnlyShards # {}
          /\ commitBatches(t) = <<Batch("commitTransaction", readOnlyShards, {}),
                                  Batch("commitTransaction", writeShards, {})>>
          /\ \A o1 \in Responses, o2 \in FanOutOutcomes :
                LET fo == fanOut(commitBatches(t), <<o1, o2>>) IN
                IF o1.status # "OK" \/ ~o1.wcOK
                THEN /\ fo.response = o1
                     /\ \A i \in 1..Len(fo.sent) : fo.sent[i].shards \cap writeShards = {}
                ELSE /\ fo.response = o2
                     /\ fo.sent = commitBatches(t)

\* a singleWriteShard commit went through both fan-outs and committed
C14_Witness ==
    /\ commitType = "singleWriteShard"
    /\ readOnlyShards # {} /\ Cardinality(writeShards) = 1
    /\ timingStats.endTime # 0 /\ abortCause = ""

(* ---------------------------------------------------------------------- *)
(* C15, C16, C17: the result of commit and the transaction's lifecycle    *)
(* ---------------------------------------------------------------------- *)
\* C15: in a transaction that can be committed and has not ended, a commit
\* response is classified as unknown, and leaves the lifecycle alone, iff
\* its status is a retryable-write error, an exceeded-time-limit error or
\* TransactionTooOld, or it carries a write-concern error, whatever its
\* status.
C15_UnknownCommitResult ==
    /\ txnNumber # kUninitializedTxnNumber /\ ~isRecoveringCommit
    /\ participants # <<>> /\ unsetShards = {} /\ timingStats.endTime = 0
    => \A r \in Responses :
          LET unknown == \/ isRetryableWritesError(r.status)
                         \/ isExceededTimeLimitError(r.status)
                         \/ r.status = "TransactionTooOld"
                         \/ ~r.wcOK
          IN /\ isCommitResultUnknown(r.status, r.wcOK) <=> unknown
             /\ unknown <=> commitLifecycle(r, abortCause, timingStats).ended = "no"

\* what commitTransaction(t) leaves of the lifecycle when its fan-outs end
\* with the given outcomes: nothing changes when it throws or the result is
\* unknown; an OK result sets the end time; another error sets the end time
\* and, if no cause is recorded, the cause
C16_Lifecycle(t, outcomes) ==
    LET r == fanOut(commitBatches(t), outcomes).response
        threw == commitError(t) # "OK" \/ r = SendFailure
        after == commitResult(t, outcomes)
    IN IF threw \/ isCommitResultUnknown(r.status, r.wcOK) THEN
            /\ after.timingStats.endTime = timingStats.endTime
            /\ after.abortCause = abortCause
            /\ after.ended = "no"
       ELSE IF r.status = "OK" THEN
            /\ after.timingStats.endTime # 0
            /\ after.abortCause = abortCause
            /\ timingStats.endTime = 0 => after.ended = "committed"
       ELSE /\ after.timingStats.endTime # 0
            /\ after.abortCause = IF abortCause = "" THEN r.status ELSE abortCause
            /\ timingStats.endTime = 0 => after.ended = "aborted"

C17_AsStated ==
    txnNumber # kUninitializedTxnNumber =>
       \A t \in CommitTokens, o1 \in FanOutOutcomes :
          \A o2 \in SecondOutcomes(t, o1) :
             commitInvariantFailure(t) = "none" =>
                commitResult(t, <<o1, o2>>).timingStats.commitStartTime # 0

\* the calls that throw before any path has set commitType: a recovering
\* commit without a token, a commit without participants on a router that
\* never began a transaction, a commit that finds an unset participant
C17_FailsBeforeStart(t) ==
    IF isRecoveringCommit THEN t = NoToken
    ELSE IF participants = <<>> THEN txnNumber = kUninitializedTxnNumber
    ELSE unsetShards # {}

\* C17: every call of commitTransaction that returns or throws leaves
\* terminationInitiated true; it records the commit-start time when none is
\* recorded and the call does not throw before a path has set commitType,
\* and leaves the commit-start time as it was otherwise.
C17_CommitStart ==
    \A t \in CommitTokens :
       /\ ~ENABLED (/\ CommitTransaction(t, <<OkResponse, OkResponse>>)
                    /\ invariantFailed' = "none"
                    /\ ~terminationInitiated')
       /\ \A o1 \in FanOutOutcomes :
             \A o2 \in SecondOutcomes(t, o1) :
                commitInvariantFailure(t) = "none" =>
                   commitResult(t, <<o1, o2>>).timingStats.commitStartTime =
                      IF timingStats.commitStartTime # 0
                      THEN timingStats.commitStartTime
                      ELSE IF C17_FailsBeforeStart(t) THEN 0 ELSE ticks

\* a recovering commit was called without a token: termination is initiated
\* and no commit-start time is recorded
C17_Witness ==
    /\ isRecoveringCommit /\ terminationInitiated
    /\ commitType = "notInitiated"
    /\ timingStats.commitStartTime = 0 /\ timingStats.endTime = 0

(* ---------------------------------------------------------------------- *)
(* C18: retry of commit                                                   *)
(* ---------------------------------------------------------------------- *)
\* C18: once termination is initiated, a step of the same transaction that
\* targets no new shard (a commit attempt, the beginOrContinueTxn before the
\* next one) changes no participant's readOnly state, nor the error, the
\* commit type and the requests commitTransaction chooses for any token,
\* nor a commit-start time that is recorded.
C18_CommitRetryIsIdempotent ==
    [][/\ terminationInitiated'
       /\ txnNumber' = txnNumber /\ invariantFailed' = "none"
       /\ DOMAIN participants' = DOMAIN participants \/ isRecoveringCommit
       => /\ \A s \in (DOMAIN participants) \cap (DOMAIN participants') :
                participants'[s].readOnly = participants[s].readOnly
          /\ \A t \in RecoveryTokens :
                /\ commitError(t)' = commitError(t)
                /\ commitError(t) = "OK" =>
                      /\ selectedCommitType(t)' = selectedCommitType(t)
                      /\ commitBatches(t)' = commitBatches(t)
          /\ timingStats.commitStartTime # 0 =>
                timingStats'.commitStartTime = timingStats.commitStartTime]_vars

\* a singleWriteShard commit that started at one tick ended as committed at a
\* later tick, in a later statement: the commit was retried
C18_Witness ==
    /\ commitType = "singleWriteShard" /\ latestStmtId > 0
    /\ timingStats.commitStartTime # 0
    /\ timingStats.endTime > timingStats.commitStartTime
    /\ abortCause = ""

(* ---------------------------------------------------------------------- *)
(* C19: commit with a recovery token                                      *)
(* ---------------------------------------------------------------------- *)
\* C19: a recovering commit fails with 50940 without a token and with
\* NoSuchTransaction for a token without recovery shard, sending nothing;
\* for a token with a recovery shard its only request is one
\* coordinateCommitTransaction with an empty participant list to that shard,
\* and the shard's response is the result.
C19_RecoveringCommit ==
    isRecoveringCommit =>
       /\ commitError(NoToken) = "50940" /\ commitBatches(NoToken) = <<>>
       /\ commitError(NoShard) = "NoSuchTransaction" /\ commitBatches(NoShard) = <<>>
       /\ \A t \in Shards :
             /\ commitError(t) = "OK"
             /\ selectedCommitType(t) = "recoverWithToken"
             /\ commitBatches(t) = <<Batch("coordinateCommitTransaction", {t}, {})>>
             /\ \A o \in Responses :
                   /\ fanOut(commitBatches(t), <<o, OkResponse>>).response = o
                   /\ fanOut(commitBatches(t), <<o, OkResponse>>).sent = commitBatches(t)
                   /\ ~commitResult(t, <<o, OkResponse>>).threw

\* a recovering commit forwarded the commit to the token's shard and learnt
\* that the transaction committed
C19_Witness ==
    /\ isRecoveringCommit /\ commitType = "recoverWithToken"
    /\ timingStats.endTime # 0 /\ abortCause = ""

(* ---------------------------------------------------------------------- *)
(* C20: abortTransaction                                                  *)
(* ---------------------------------------------------------------------- *)
\* the first response with a command error or write-concern error, else the
\* last one
C20_FirstErrorOrLast(responses) ==
    IF \E i \in 1..Len(responses) : responses[i].status # "OK" \/ ~responses[i].wcOK
    THEN LET i == CHOOSE i \in 1..Len(responses) :
                     /\ responses[i].status # "OK" \/ ~responses[i].wcOK
                     /\ \A j \in 1..(i - 1) : responses[j] = OkResponse
         IN responses[i]
    ELSE responses[Len(responses)]

\* C20: without participants abortTransaction fails with NoSuchTransaction,
\* sends nothing and leaves terminationInitiated; with participants it sets
\* terminationInitiated, sends abortTransaction with the write concern to
\* exactly the participants and, when every response could be read, returns
\* the first response with a command or write-concern error, else the last;
\* it never changes participants.
C20_ExplicitAbort ==
    /\ ~ENABLED (/\ AbortTransaction(OkResponse)
                 /\ invariantFailed' = "none"
                 /\ \/ participants' # participants
                    \/ terminationInitiated' #
                          (terminationInitiated \/ participants # <<>>))
    /\ IF participants = <<>> THEN
            /\ abortError(OkResponse) = "NoSuchTransaction"
            /\ abortBatches = <<>>
       ELSE /\ abortBatches =
                  <<[cmd |-> "abortTransaction", shards |-> DOMAIN participants,
                     participants |-> {}, writeConcern |-> TRUE]>>
            /\ \A rs \in [1..Cardinality(DOMAIN participants)
                             -> AbortResponses \ {SendFailure}] :
                  /\ abortResult(rs) = C20_FirstErrorOrLast(rs)
                  /\ abortError(abortResult(rs)) = "OK"

\* an explicit abort of two participants ended the transaction
C20_Witness ==
    /\ Cardinality(DOMAIN participants) = 2
    /\ terminationInitiated /\ abortCause = "abort"
    /\ timingStats.endTime # 0 /\ commitType = "notInitiated"

(* ---------------------------------------------------------------------- *)
(* C21, C22, C23: implicit abort and the abort cause                      *)
(* ---------------------------------------------------------------------- *)
\* implicitlyAbortTransaction gets to send its aborts
C21_Sends ==
    /\ commitType # "twoPhaseCommit" /\ commitType # "recoverWithToken"
    /\ participants # <<>>

\* C21: implicitlyAbortTransaction sends abortTransaction without write
\* concern to every participant, and sets terminationInitiated, iff
\* commitType is neither twoPhaseCommit nor recoverWithToken and there are
\* participants; for twoPhaseCommit and recoverWithToken it sends nothing
\* and changes nothing; it never changes participants.
C21_ImplicitAbort ==
    /\ implicitAbortBatches =
          IF C21_Sends
          THEN <<[cmd |-> "abortTransaction", shards |-> DOMAIN participants,
                  participants |-> {}, writeConcern |-> FALSE]>>
          ELSE <<>>
    /\ \A c \in ImplicitAbortCodes :
          ~ENABLED (/\ ImplicitlyAbortTransaction(c)
                    /\ invariantFailed' = "none"
                    /\ \/ terminationInitiated' # (terminationInitiated \/ C21_Sends)
                       \/ participants' # participants
                       \/ /\ commitType \in {"twoPhaseCommit", "recoverWithToken"}
                          /\ vars' # vars)

\* an implicit abort reached the participants of a transaction that had not
\* begun to commit
C21_Witness ==
    /\ participants # <<>> /\ commitType = "notInitiated"
    /\ terminationInitiated /\ abortCause = "WriteConflict"

\* a two-phase commit has started and its outcome is not known
C22_TwoPhasePending == commitType = "twoPhaseCommit" /\ timingStats.endTime = 0

\* C22 as stated: while a two-phase commit is pending,
\* implicitlyAbortTransaction sends nothing, records the error's code as
\* abortCause and leaves the end time unset.
C22_AsStated ==
    C22_TwoPhasePending =>
       /\ implicitAbortBatches = <<>>
       /\ \A c \in ImplicitAbortCodes :
             ~ENABLED (/\ ImplicitlyAbortTransaction(c)
                       /\ ~(abortCause' = c /\ timingStats'.endTime = 0))

\* C22: while a two-phase commit is pending no abort cause is recorded, and
\* implicitlyAbortTransaction sends nothing and changes nothing: abortCause
\* stays empty and the end time unset.
C22_PendingCommitIgnoresImplicitAbort ==
    C22_TwoPhasePending =>
       /\ abortCause = ""
       /\ implicitAbortBatches = <<>>
       /\ \A c \in ImplicitAbortCodes :
             /\ ENABLED ImplicitlyAbortTransaction(c)
             /\ ~ENABLED (ImplicitlyAbortTransaction(c) /\ vars' # vars)

\* a two-phase commit is pending after a statement-level error could surface
C22_Witness ==
    /\ C22_TwoPhasePending /\ terminationInitiated
    /\ timingStats.commitStartTime # 0
    /\ Cardinality(writeShards) = 2

\* the statuses commitTransaction takes for a non-retryable commit error
C23_NonRetryable == {st \in Statuses : st # "OK" /\ ~isCommitResultUnknown(st, TRUE)}

C24_Frame ==
    /\ DOMAIN participants' = {s \in DOMAIN participants :
                                  participants[s].stmtIdCreatedAt # latestStmtId}
    /\ \A s \in DOMAIN participants' : participants'[s] = participants[s]
    /\ txnNumber' = txnNumber
    /\ latestStmtId' = latestStmtId
    /\ atClusterTime' = atClusterTime

\* the aborts go to exactly the participants created at the current statement
C24_Aborts ==
    LET created == {s \in DOMAIN participants :
                       participants[s].stmtIdCreatedAt = latestStmtId}
    IN  /\ \A i \in DOMAIN clearPendingBatches :
               /\ clearPendingBatches[i].cmd = "abortTransaction"
               /\ clearPendingBatches[i].shards \subseteq created
        /\ \A s \in created :
               \E i \in DOMAIN clearPendingBatches : s \in clearPendingBatches[i].shards

\* C24: when onStaleShardOrDbError or onViewResolutionError completes
\* successfully, exactly the participants with stmtIdCreatedAt = latestStmtId
\* are removed, each after being sent abortTransaction; every participant
\* created at an earlier statement is still present with the same
\* isCoordinator, readOnly, stmtIdCreatedAt and sharedOptions and is sent no
\* abort; txnNumber, latestStmtId and atClusterTime are unchanged.
C24_RetryRemovesOnlyPending ==
    (Running /\ txnNumber # kUninitializedTxnNumber) =>
        /\ C24_Aborts
        /\ ~ENABLED (/\ OnViewResolutionError("ok")
                     /\ invariantFailed' = "none"
                     /\ ~C24_Frame)
        /\ \A c \in StatementCmdNames :
               ~ENABLED (/\ OnStaleShardOrDbError(TRUE, c, "ok")
                         /\ invariantFailed' = "none"
                         /\ ~C24_Frame)

\* a transaction at a later statement with a participant of the first
\* statement that wrote and a participant created at the current statement
C24_Witness ==
    /\ Running
    /\ txnNumber # kUninitializedTxnNumber
    /\ latestStmtId # firstStmtId
    /\ \E s \in DOMAIN participants :
           /\ participants[s].stmtIdCreatedAt = firstStmtId
           /\ participants[s].readOnly = "notReadOnly"
    /\ \E s \in DOMAIN participants : participants[s].stmtIdCreatedAt = latestStmtId
    /\ ENABLED (OnStaleShardOrDbError(TRUE, "find", "ok") /\ invariantFailed' = "none")


(* ---------------------------------------------------------------------- *)
(* C25                                                                    *)
(* ---------------------------------------------------------------------- *)
\* the state onSnapshotError is meant to leave
C25_Cleared ==
    /\ invariantFailed' = "none"
    /\ participants' = <<>>
    /\ coordinatorId' = NoShard
    /\ atClusterTime' = EmptyAtClusterTime

\* setDefaultAtClusterTime fixes a time at the current statement
C25_TimeFixed ==
    /\ atClusterTime'.present
    /\ timeHasBeenSet(atClusterTime')
    /\ atClusterTime'.stmtIdSelectedAt = latestStmtId

C26_CmdNames ==
    {"aggregate", "distinct", "find", "getMore", "killCursors",
     "insert", "update", "delete", "findAndModify", "count"}

C26_Expected(gate, cmdName) ==
    gate /\ (\/ latestStmtId = firstStmtId
             \/ cmdName \in {"aggregate", "distinct", "find", "getMore", "killCursors"})

\* C26: canContinueOnStaleShardOrDbError(cmdName) is true iff the retry gate is
\* on and (latestStmtId = firstStmtId or cmdName is one of aggregate, distinct,
\* find, getMore, killCursors); with the gate off it is false for every
\* command and statement. onStaleShardOrDbError fails its invariant exactly
\* when it is false.
C26_StaleRetryAllowed ==
    /\ \A gate \in BOOLEAN, c \in C26_CmdNames :
           canContinueOnStaleShardOrDbError(gate, c) <=> C26_Expected(gate, c)
    /\ \A c \in C26_CmdNames : ~canContinueOnStaleShardOrDbError(FALSE, c)
    /\ Running =>
           \A gate \in BOOLEAN, c \in StatementCmdNames :
               IF C26_Expected(gate, c)
               THEN ~ENABLED (/\ OnStaleShardOrDbError(gate, c, "ok")
                              /\ invariantFailed' = "canContinueOnStaleShardOrDbError")
               ELSE ~ENABLED (/\ OnStaleShardOrDbError(gate, c, "ok")
                              /\ invariantFailed' # "canContinueOnStaleShardOrDbError")

\* a later statement of a transaction that has contacted a new shard: a find
\* may be retried, an insert may not
C26_Witness ==
    /\ Running
    /\ txnNumber # kUninitializedTxnNumber
    /\ latestStmtId > firstStmtId
    /\ _getPendingParticipants # {}
    /\ canContinueOnStaleShardOrDbError(TRUE, "find")
    /\ ~canContinueOnStaleShardOrDbError(TRUE, "insert")
    /\ ~canContinueOnStaleShardOrDbError(FALSE, "find")


(* ---------------------------------------------------------------------- *)
(* C27                                                                    *)
(* ---------------------------------------------------------------------- *)
\* no time has been fixed yet, or it was fixed at the current statement
C27_TimeMayChange ==
    \/ ~timeHasBeenSet(atClusterTime)
    \/ atClusterTime.stmtIdSelectedAt = latestStmtId

C28_ReadOnlyResponse == [ok |-> TRUE, readOnly |-> TRUE]

\* the participants after such a response has marked the shard read-only
C28_MarkedReadOnly(s) == [participants EXCEPT ![s].readOnly = "readOnly"]

\* What an OK response reporting readOnly: true does for participant s before
\* termination is initiated. unsetMarks(s) tells whether an unset participant
\* is marked read-only; where it is not, the call fails with 51112 and the
\* participant stays unset.
C28_Transitions(s, unsetMarks) ==
    LET state == participants[s].readOnly
        thrown == processParticipantResponseThrown(s, C28_ReadOnlyResponse)
        after == IF state = "unset" /\ unsetMarks
                 THEN C28_MarkedReadOnly(s) ELSE participants
    IN  /\ thrown = CASE state = "unset" -> IF unsetMarks THEN "OK" ELSE "51112"
                      [] state = "readOnly" -> "OK"
                      [] state = "notReadOnly" -> "51113"
        /\ ~ENABLED (/\ ProcessParticipantResponse(s, C28_ReadOnlyResponse)
                     /\ ~(/\ invariantFailed' = "none"
                          /\ participants' = after
                          /\ recoveryShardId' = recoveryShardId))

\* the calls the claim is about: the transaction has not initiated its
\* termination and the lookup of the participant passes its check
C28_Participants ==
    IF Running /\ txnNumber # kUninitializedTxnNumber /\ ~terminationInitiated
    THEN {s \in DOMAIN participants : getParticipantOk(s)}
    ELSE {}

\* C28 as stated: processParticipantResponse with an OK response reporting
\* readOnly = true, before termination is initiated, sets an unset participant
\* to readOnly, changes nothing for a participant already readOnly, and for a
\* participant that is notReadOnly fails with 51113 leaving that participant
\* notReadOnly and recoveryShardId unchanged.
C28_AsStated ==
    \A s \in C28_Participants : C28_Transitions(s, TRUE)

\* C28, amended: the same, except that an unset participant is set to
\* readOnly only if it was created at the current statement; an unset
\* participant created at an earlier statement fails with 51112 and stays
\* unset.
C28_ReadOnlyResponseTransitions ==
    \A s \in C28_Participants :
        C28_Transitions(s, participants[s].stmtIdCreatedAt = latestStmtId)

\* before termination, one participant has written and another, created at an
\* earlier statement, has not answered yet
C28_Witness ==
    /\ \E s \in C28_Participants : participants[s].readOnly = "notReadOnly"
    /\ \E s \in C28_Participants :
           /\ participants[s].readOnly = "unset"
           /\ participants[s].stmtIdCreatedAt < latestStmtId


(* ---------------------------------------------------------------------- *)
(* C29                                                                    *)
(* ---------------------------------------------------------------------- *)
\* the participants created at an earlier statement, in a transaction that
\* has not initiated its termination
C29_EarlierParticipants ==
    IF Running /\ txnNumber # kUninitializedTxnNumber /\ ~terminationInitiated
    THEN {s \in DOMAIN participants : participants[s].stmtIdCreatedAt < latestStmtId}
    ELSE {}

\* C29 as stated: for a participant whose stmtIdCreatedAt is less than
\* latestStmtId, processParticipantResponse does not fail with 51112 when the
\* OK response carries a readOnly field, whichever its value.
C29_AsStated ==
    \A s \in C29_EarlierParticipants, readOnly \in BOOLEAN :
        processParticipantResponseThrown(s, [ok |-> TRUE, readOnly |-> readOnly])
            # "51112"

\* C29, amended: for a participant whose stmtIdCreatedAt is less than
\* latestStmtId, processParticipantResponse of an OK response, before
\* termination is initiated, fails with 51112 exactly when the participant's
\* readOnly state is still unset, whatever readOnly field the response
\* carries, and then leaves the participant unset; a participant created at
\* the current statement never fails with 51112. No participant is created at
\* a statement later than latestStmtId.
C29_UnsetEarlierParticipantFails ==
    /\ \A s \in C29_EarlierParticipants, readOnly \in BOOLEAN :
           LET response == [ok |-> TRUE, readOnly |-> readOnly]
           IN  /\ processParticipantResponseThrown(s, response) = "51112"
                      <=> participants[s].readOnly = "unset"
               /\ (participants[s].readOnly = "unset" /\ getParticipantOk(s)) =>
                      ~ENABLED (/\ ProcessParticipantResponse(s, response)
                                /\ participants' # participants)
    /\ (Running /\ txnNumber # kUninitializedTxnNumber /\ ~terminationInitiated) =>
           \A s \in DOMAIN participants :
               /\ participants[s].stmtIdCreatedAt <= latestStmtId
               /\ participants[s].stmtIdCreatedAt = latestStmtId =>
                      \A readOnly \in BOOLEAN :
                          processParticipantResponseThrown(
                              s, [ok |-> TRUE, readOnly |-> readOnly]) # "51112"

\* at a later statement, before termination, a participant of an earlier
\* statement is still unset and another one of an earlier statement is
\* read-only
C29_Witness ==
    /\ \E s \in C29_EarlierParticipants : participants[s].readOnly = "unset"
    /\ \E s \in C29_EarlierParticipants : participants[s].readOnly = "readOnly"


(* ---------------------------------------------------------------------- *)
(* C30                                                                    *)
(* ---------------------------------------------------------------------- *)
\* the responses processParticipantResponse does not look at: all of them
\* once termination is initiated, else those whose command status is not OK
C30_IgnoredResponses ==
    {r \in [ok : BOOLEAN, readOnly : BOOLEAN] : terminationInitiated \/ ~r.ok}

\* C30: for a shard that is a participant, processParticipantResponse leaves
\* every participant's readOnly state and recoveryShardId unchanged and raises
\* no error whenever terminationInitiated is set or the response's command
\* status is not OK, whatever readOnly field the response carries.
C30_IgnoredResponseChangesNothing ==
    (Running /\ txnNumber # kUninitializedTxnNumber) =>
        \A s \in DOMAIN participants :
            /\ \A r \in C30_IgnoredResponses :
                   processParticipantResponseThrown(s, r) = "OK"
            /\ getParticipantOk(s) =>
                   /\ ENABLED (\E r \in C30_IgnoredResponses :
                                   ProcessParticipantResponse(s, r))
                   /\ ~ENABLED (\E r \in C30_IgnoredResponses :
                                    /\ ProcessParticipantResponse(s, r)
                                    /\ ~(/\ invariantFailed' = "none"
                                         /\ participants' = participants
                                         /\ recoveryShardId' = recoveryShardId))

\* termination has been initiated while one participant has written and
\* another is still unset: a response would fail 51113 or 51112, or mark a
\* participant, if it were looked at
C30_Witness ==
    /\ Running
    /\ txnNumber # kUninitializedTxnNumber
    /\ terminationInitiated
    /\ \E s \in DOMAIN participants :
           /\ participants[s].readOnly = "notReadOnly"
           /\ getParticipantOk(s)
           /\ processParticipantResponseError(s, TRUE) = "51113"
    /\ \E s \in DOMAIN participants :
           /\ participants[s].readOnly = "unset"
           /\ getParticipantOk(s)


(* ---------------------------------------------------------------------- *)
(* C31                                                                    *)
(* ---------------------------------------------------------------------- *)
\* the decoration of a command for the shard starts a transaction there: it
\* carries startTransaction and the transaction's read concern
C31_Starts(fields) ==
    /\ fields.startTransaction
    /\ fields.readConcernLevel = readConcernArgs.level
    /\ fields.atClusterTime = IF atClusterTime.present /\ ~isEmpty(readConcernArgs)
                              THEN atClusterTime.time ELSE kUninitializedTime

\* the decoration adds neither startTransaction nor a read concern
C31_Continues(fields) ==
    /\ ~fields.startTransaction
    /\ fields.readConcernLevel = ""
    /\ fields.atClusterTime = kUninitializedTime

C31_Decoration ==
    \A s \in Shards, c \in CmdNames :
        (Running /\ attachInvariantFailure(s) = "none") =>
            LET fields == attachedFields(s, c)
                creates == s \notin DOMAIN participants
                control == c \in {"abortTransaction", "commitTransaction",
                                  "prepareTransaction", "coordinateCommitTransaction"}
            IN  /\ IF creates /\ ~control
                   THEN C31_Starts(fields) ELSE C31_Continues(fields)
                /\ fields.txnNumber = txnNumber
                /\ fields.autocommit = FALSE

\* a step that removes the shard's participant without ending the process
C31_Removed(s) ==
    /\ s \in DOMAIN participants
    /\ s \notin DOMAIN participants'
    /\ invariantFailed' = "none"

C32_SameTransaction ==
    /\ txnNumber' = txnNumber
    /\ isRecoveringCommit' = isRecoveringCommit
    /\ invariantFailed' = "none"

\* C32: in every state between router operations the atClusterTime holder is
\* present iff the stored read concern level is snapshot; it is absent for a
\* recovering commit and for majority, local or empty read concern; within a
\* transaction it is never removed, and when its time is taken back, as
\* onSnapshotError does, the holder stays present with no time set.
C32_HolderIffSnapshot ==
    /\ [](/\ atClusterTime.present <=> readConcernArgs.level = "snapshot"
          /\ isRecoveringCommit => ~atClusterTime.present
          /\ readConcernArgs.level \in {"majority", "local", ""} =>
                 atClusterTime = AbsentAtClusterTime)
    /\ [][C32_SameTransaction =>
             /\ atClusterTime'.present = atClusterTime.present
             /\ readConcernArgs' = readConcernArgs
             /\ (timeHasBeenSet(atClusterTime) /\ ~timeHasBeenSet(atClusterTime')) =>
                    atClusterTime' = EmptyAtClusterTime]_vars

\* the first transaction, a snapshot one, whose read timestamp had been fixed
\* at the latest cluster time, after a snapshot error: the holder is empty
\* again
C32_Witness ==
    /\ Running
    /\ txnNumber = 0
    /\ readConcernArgs.level = "snapshot"
    /\ atClusterTime = EmptyAtClusterTime
    /\ clusterTime = MaxClusterTime


(* ---------------------------------------------------------------------- *)
(* C33                                                                    *)
(* ---------------------------------------------------------------------- *)
C33_Max(a, b) == IF a > b THEN a ELSE b

\* what setDefaultAtClusterTime is to do when the logical clock reads now
C33_Expected(now) ==
    /\ atClusterTime' =
           IF atClusterTime.present
                 /\ (\/ atClusterTime.stmtIdSelectedAt = NoStmtId
                     \/ atClusterTime.stmtIdSelectedAt = latestStmtId)
           THEN [present |-> TRUE,
                 time |-> IF opAfterClusterTime = kUninitializedTime
                          THEN now ELSE C33_Max(now, opAfterClusterTime),
                 stmtIdSelectedAt |-> latestStmtId]
           ELSE atClusterTime
    /\ UNCHANGED <<txnNumber, readConcernArgs, participants, coordinatorId,
                   recoveryShardId, commitType, isRecoveringCommit,
                   terminationInitiated, firstStmtId, latestStmtId, abortCause,
                   timingStats, invariantFailed>>

\* C33: when setDefaultAtClusterTime takes effect (holder present and
\* canChange(latestStmtId) true), the time it fixes is the greater of the
\* current cluster time and the operation's afterClusterTime, or the current
\* cluster time when no afterClusterTime is given, and is recorded as selected
\* at latestStmtId; when the holder is absent or cannot change, it changes
\* nothing.
C33_DefaultAtClusterTime ==
    Running =>
        /\ ENABLED (\E now \in ClusterTimes : SetDefaultAtClusterTime(now))
        /\ ~ENABLED (\E now \in ClusterTimes :
                         SetDefaultAtClusterTime(now) /\ ~C33_Expected(now))

\* a snapshot transaction whose read timestamp was taken from the operation's
\* afterClusterTime, ahead of the cluster time
C33_Witness ==
    /\ Running
    /\ txnNumber # kUninitializedTxnNumber
    /\ atClusterTimeHasBeenSet
    /\ atClusterTime.stmtIdSelectedAt = latestStmtId
    /\ atClusterTime.time = opAfterClusterTime
    /\ atClusterTime.time > clusterTime


(* ---------------------------------------------------------------------- *)
(* C34                                                                    *)
(* ---------------------------------------------------------------------- *)
\* C34: an observer that reads the router's state under the client lock,
\* between two critical sections of a running operation (participant
\* creation, clearing of pending participants, start of a transaction), sees
\* a consistent state: whenever coordinatorId is set, that shard is among the
\* participants.
C34_ObserverSeesCoordinatorAmongParticipants ==
    (Running /\ coordinatorId # NoShard) => coordinatorId \in DOMAIN participants


(* ---------------------------------------------------------------------- *)
(* C35                                                                    *)
(* ---------------------------------------------------------------------- *)
\* an operation that clears the pending participants while the aborts end as
\* the outcome says, and that does not end the process
C35_Clears(outcome) ==
    /\ \/ OnViewResolutionError(outcome)
       \/ OnStaleShardOrDbError(TRUE, "find", outcome)
       \/ OnSnapshotError(TRUE, outcome)
    /\ invariantFailed' = "none"

C35_Untouched ==
    UNCHANGED <<participants, coordinatorId, recoveryShardId>>

\* C35: when pending participants are cleared, abortTransaction is sent to
\* every pending participant while all of them are still participants; if an
\* abort response is a command error other than NoSuchTransaction the
\* operation fails with NoSuchTransaction, a failed send propagates its error,
\* and in both cases participants, coordinatorId and recoveryShardId are left
\* exactly as they were.
C35_FailedAbortLeavesParticipants ==
    Running =>
        /\ _getPendingParticipants # {} =>
               /\ Len(clearPendingBatches) = 1
               /\ clearPendingBatches[1].cmd = "abortTransaction"
               /\ clearPendingBatches[1].shards = _getPendingParticipants
               /\ clearPendingBatches[1].shards \subseteq DOMAIN participants
        /\ abortOutcomeError("ok") = "OK"
        /\ abortOutcomeError("commandError") = "NoSuchTransaction"
        /\ abortOutcomeError("sendFailure") \notin {"OK", "NoSuchTransaction"}
        /\ ~ENABLED (\E outcome \in {"commandError", "sendFailure"} :
                         C35_Clears(outcome) /\ ~C35_Untouched)

\* the coordinator and the recovery shard are pending when an abort sent to
\* clear them is answered with a command error
C35_Witness ==
    /\ Running
    /\ txnNumber # kUninitializedTxnNumber
    /\ coordinatorId \in _getPendingParticipants
    /\ recoveryShardId \in _getPendingParticipants
    /\ ENABLED C35_Clears("commandError")


(* ---------------------------------------------------------------------- *)
(* C36                                                                    *)
(* ---------------------------------------------------------------------- *)
C36_Coordinators == {s \in DOMAIN participants : participants[s].isCoordinator}

\* the shard is the coordinator once a command for it has been decorated
C36_IsOrBecomesCoordinator(s) ==
    IF s \in DOMAIN participants THEN s = coordinatorId ELSE participants = <<>>

\* a step of one transaction that changes the readOnly state of participant s
C36_UpdatesReadOnly(s) ==
    /\ txnNumber' = txnNumber
    /\ invariantFailed' = "none"
    /\ s \in DOMAIN participants
    /\ s \in DOMAIN participants'
    /\ participants'[s].readOnly # participants[s].readOnly

\* C36: between router operations exactly one participant has isCoordinator
\* true when participants is non-empty, none when it is empty, and it is the
\* one named by coordinatorId; attachTxnFieldsIfNeeded adds the coordinator
\* marker to a command iff the target shard is that participant; updating a
\* participant's readOnly state preserves its isCoordinator, stmtIdCreatedAt
\* and sharedOptions and leaves all other participants unchanged.
C36_OneCoordinator ==
    /\ [](/\ Cardinality(C36_Coordinators) = IF participants = <<>> THEN 0 ELSE 1
          /\ C36_Coordinators = {coordinatorId} \ {NoShard}
          /\ \A s \in Shards, c \in CmdNames :
                 (Running /\ attachInvariantFailure(s) = "none") =>
                     (attachedFields(s, c).coordinator <=> C36_IsOrBecomesCoordinator(s)))
    /\ [][\A s \in Shards :
             C36_UpdatesReadOnly(s) =>
                 /\ participants' = [participants EXCEPT
                                        ![s].readOnly = participants'[s].readOnly]
                 /\ coordinatorId' = coordinatorId]_vars

\* two participants whose readOnly states have both been updated: the
\* coordinator is read-only, the other has written
C36_Witness ==
    /\ Running
    /\ Cardinality(DOMAIN participants) = 2
    /\ coordinatorId # NoShard
    /\ participants[coordinatorId].readOnly = "readOnly"
    /\ \E s \in DOMAIN participants : s # coordinatorId /\ s \in writeShards

(***************************************************************************)
(* C37: the lifecycle of a transaction is ended at most once.              *)
(***************************************************************************)

\* every commit result the router can see in the current state
C37_CommitResults ==
    { commitResult(i[1], <<i[2], i[3]>>) :
        i \in { j \in CommitTokens \X FanOutOutcomes \X FanOutOutcomes :
                  /\ j[3] \in SecondOutcomes(j[1], j[2])
                  /\ commitInvariantFailure(j[1]) = "none" } }

\* a cause is recorded only once the end time is set, and an ended transaction
\* has a cause or an initiated commit
C37_CauseOnlyWhenEnded ==
    /\ abortCause # "" => timingStats.endTime # 0
    /\ timingStats.endTime # 0 => abortCause # "" \/ commitType # "notInitiated"

\* once the end time is set, nothing ends the transaction or counts it again
C37_EndedOnce ==
    timingStats.endTime # 0 =>
       /\ endTransactionTrackingIfNecessary(timingStats) = timingStats
       /\ \A c \in ImplicitAbortCodes :
             /\ ~onImplicitAbort(c).ended
             /\ onImplicitAbort(c).timingStats = timingStats
       /\ \A r \in C37_CommitResults :
             r.ended = "no" /\ r.timingStats.endTime = timingStats.endTime

\* a commit result that ends the transaction as committed leaves no cause and
\* an initiated commit
C37_CommittedEnd ==
    \A t \in CommitTokens, o1 \in FanOutOutcomes :
       \A o2 \in SecondOutcomes(t, o1) :
          /\ commitInvariantFailure(t) = "none"
          /\ commitResult(t, <<o1, o2>>).ended = "committed"
          => /\ commitResult(t, <<o1, o2>>).abortCause = ""
             /\ selectedCommitType(t) # "notInitiated"

\* within a transaction, a step that does not terminate the process keeps an
\* end time that is set
C37_EndTimeKept ==
    /\ txnNumber' = txnNumber
    /\ invariantFailed' = "none"
    /\ timingStats.endTime # 0
    => timingStats'.endTime = timingStats.endTime

\* within a transaction, a step that sets the end time and leaves no cause has
\* ended it as committed: the commit is initiated
C37_EndsCommitted ==
    /\ txnNumber' = txnNumber
    /\ invariantFailed' = "none"
    /\ timingStats.endTime = 0 /\ timingStats'.endTime # 0
    /\ abortCause' = ""
    => abortCause = "" /\ commitType' # "notInitiated"

\* within a transaction, a transaction that has ended with no cause, that is as
\* committed, keeps an empty cause
C37_CommittedKeepsNoCause ==
    /\ txnNumber' = txnNumber
    /\ invariantFailed' = "none"
    /\ timingStats.endTime # 0 /\ abortCause = ""
    => abortCause' = ""

\* C37 as stated: once the end time is set nothing changes it or counts the
\* transaction again; a cause is recorded only once the lifecycle has ended;
\* and a transaction ended as committed has, in every later state, no cause
\* and an initiated commit.
C37_AsStated ==
    /\ [](C37_CauseOnlyWhenEnded /\ C37_EndedOnce /\ C37_CommittedEnd)
    /\ [][C37_EndTimeKept /\ C37_EndsCommitted /\ C37_CommittedKeepsNoCause]_vars

\* C37: once the end time is set, no commit result, explicit abort or implicit
\* abort changes it or counts the transaction again; a cause is recorded only
\* once the lifecycle has ended; and at the step that ends a transaction as
\* committed it has no cause and an initiated commit.
C37_LifecycleEndedOnce ==
    /\ [](C37_CauseOnlyWhenEnded /\ C37_EndedOnce /\ C37_CommittedEnd)
    /\ [][C37_EndTimeKept /\ C37_EndsCommitted]_vars

\* a transaction ended as committed at an earlier tick
C37_Witness ==
    /\ txnNumber # kUninitializedTxnNumber
    /\ timingStats.endTime # 0 /\ timingStats.endTime < ticks
    /\ abortCause = "" /\ commitType # "notInitiated"
    /\ invariantFailed = "none"

(***************************************************************************)
(* C38: snapshot errors are retryable only on the first client statement.  *)
(***************************************************************************)

\* C38: in a transaction, canContinueOnSnapshotError is true only in states
\* where latestStmtId == firstStmtId, whatever the fail point says.
C38_RetryableOnlyOnFirstStatement ==
    txnNumber # kUninitializedTxnNumber =>
       \A failPointOn \in BOOLEAN :
          canContinueOnSnapshotError(failPointOn) => latestStmtId = firstStmtId

(***************************************************************************)
(* C39: accounting of active and inactive time.                            *)
(***************************************************************************)

\* read at the current tick or at any later one, the active time of a started
\* transaction does not exceed its open duration
C39_InactiveNeverNegative ==
    timingStats.startTime # 0 =>
       \A curTicks \in ticks..MaxAccountingTicks :
          /\ getTimeActiveMicros(timingStats, curTicks) <=
                getDuration(timingStats, curTicks)
          /\ getTimeInactiveMicros(timingStats, curTicks) >= 0

\* a stash of a transaction that is stashed already, or has ended, changes
\* nothing
C39_StashTwice ==
    timingStats.lastTimeActiveStart = 0 \/ timingStats.endTime # 0
    => trySetInactive(timingStats, ticks) = timingStats

\* a step of one transaction that does not terminate the process
C39_Step == txnNumber' = txnNumber /\ invariantFailed' = "none"

\* the accumulated active time changes only when an active transaction is
\* stashed or ended, by the time since its activation; and the active time
\* read does not change while the transaction is not active
C39_AccruesWhileActive ==
    C39_Step =>
       /\ timingStats'.timeActiveMicros # timingStats.timeActiveMicros
          => /\ timingStats.lastTimeActiveStart # 0
             /\ timingStats'.lastTimeActiveStart = 0
             /\ timingStats'.timeActiveMicros =
                   timingStats.timeActiveMicros +
                      ticksTo(ticks - timingStats.lastTimeActiveStart)
       /\ timingStats.lastTimeActiveStart = 0
          => getTimeActiveMicros(timingStats', ticks') =
                getTimeActiveMicros(timingStats, ticks)

\* after the end no value of the timing statistics changes
C39_FrozenAfterEnd ==
    C39_Step /\ timingStats.endTime # 0 => timingStats' = timingStats

\* after the end the values that the durations are computed from do not change
C39_AccountedFrozenAfterEnd ==
    C39_Step /\ timingStats.endTime # 0
    => /\ timingStats'.startTime = timingStats.startTime
       /\ timingStats'.endTime = timingStats.endTime
       /\ timingStats'.timeActiveMicros = timingStats.timeActiveMicros
       /\ timingStats'.lastTimeActiveStart = timingStats.lastTimeActiveStart

\* C39 as stated: the active time never exceeds the open duration; active
\* time accrues only between an activation and the next stash or end; a
\* stash after a stash or after the end changes nothing; and after the end no
\* value of the timing statistics changes.
C39_AsStated ==
    /\ [](C39_InactiveNeverNegative /\ C39_StashTwice)
    /\ [][C39_AccruesWhileActive /\ C39_FrozenAfterEnd]_vars

\* C39: the active time never exceeds the open duration; active time accrues
\* only between an activation and the next stash or end; a stash after a
\* stash or after the end changes nothing; and after the end the start time,
\* the end time and the active time, hence the open, active and inactive
\* durations, do not change.
C39_TimeAccounting ==
    /\ [](C39_InactiveNeverNegative /\ C39_StashTwice)
    /\ [][C39_AccruesWhileActive /\ C39_AccountedFrozenAfterEnd]_vars

\* a transaction that was active, then stashed, and ended later: part of its
\* open duration is active time and part is inactive time
C39_Witness ==
    /\ txnNumber # kUninitializedTxnNumber /\ invariantFailed = "none"
    /\ timingStats.endTime # 0
    /\ timingStats.timeActiveMicros > 0
    /\ getTimeInactiveMicros(timingStats, ticks) > 0

(***************************************************************************)
(* C40: readTransactionOperationsFromOplogChain returns the operations in  *)
(* chronological order.                                                    *)
(***************************************************************************)

\* the ids of the operations of a sequence of entries, entry after entry, each
\* entry's in the order of its array
RECURSIVE C40_OpsOf(_)
C40_OpsOf(entries) ==
    IF entries = <<>> THEN <<>> ELSE Head(entries).ops \o C40_OpsOf(Tail(entries))

\* the prepare or unprepared commit of the chain
C40_PrepareOrUnpreparedCommit ==
    IF isPreparedCommit(lastEntryInTxn) THEN oplog[Len(oplog)] ELSE lastEntryInTxn

\* the written partial entries oldest first, then the cached entries, then
\* the prepare or unprepared commit
C40_Expected ==
    C40_OpsOf(SelectSeq(oplog, isPartialTransaction)) \o
    C40_OpsOf(cachedOps) \o
    C40_PrepareOrUnpreparedCommit.ops

\* C40: for every chain, readTransactionOperationsFromOplogChain fails no
\* invariant and returns the operations of the written partial entries,
\* oldest entry first and each entry's in their original order, then those of
\* the cached entries in increasing timestamp order, then those of the
\* prepare or unprepared commit; that is the order in which the transaction
\* made them, and a prepared commit adds none of its own.
C40_ChronologicalOrder ==
    applierPc = "done" =>
       /\ invariantFailed = "none"
       /\ [i \in 1..Len(ops) |-> ops[i].id] = C40_Expected
       /\ \A i \in 1..Len(ops) : ops[i].id = i
       /\ isPreparedCommit(lastEntryInTxn) =>
             Len(ops) = Len(C40_OpsOf(oplog))

\* an unprepared commit or prepare applied with two partial entries written,
\* one of them holding two operations, and one cached
C40_Witness ==
    /\ applierPc = "done"
    /\ ~isPreparedCommit(lastEntryInTxn)
    /\ Len(oplog) >= 2 /\ Len(oplog[1].ops) = 2
    /\ cachedOps # <<>>
    /\ Len(ops) >= 5

\* a prepared commit applied with two partial entries before the prepare
C40_PreparedCommitRead ==
    /\ applierPc = "done"
    /\ isPreparedCommit(lastEntryInTxn)
    /\ Len(oplog) >= 3 /\ Len(oplog[1].ops) = 2
    /\ Len(ops) >= 4

====
